---- MODULE Spec2Model ----
(***************************************************************************)
(* pathfish core (src/unnamed/part_003, lines 84-461): the ignore policy,  *)
(* the regex ("pattern") extractor, the fuzzy extractor, the strategy      *)
(* combiner extractPaths and the concurrent verifier verifyPaths.          *)
(*                                                                         *)
(* Strings are TLA+ strings; a character is a string of length 1.          *)
(* Offsets into a string are 0-based like JavaScript's (offset i sits      *)
(* before character i+1).  node:path is modelled with its POSIX semantics. *)
(***************************************************************************)
EXTENDS Integers, Sequences, FiniteSets, TLC

(***************************************************************************)
(* JavaScript string primitives.                                           *)
(***************************************************************************)
Ch(s, i) == SubSeq(s, i, i)

Slice(s, a, b) == SubSeq(s, a + 1, b)

CharsOf(s) == { Ch(s, i) : i \in 1..Len(s) }

StartsWith(s, p) == Len(p) <= Len(s) /\ SubSeq(s, 1, Len(p)) = p

EndsWith(s, p) == Len(p) <= Len(s) /\ SubSeq(s, Len(s) - Len(p) + 1, Len(s)) = p

Includes(s, p) == \E i \in 0..(Len(s) - Len(p)) : Slice(s, i, i + Len(p)) = p

Alpha == CharsOf("abcdefghijklmnopqrstuvwxyz") \cup CharsOf("ABCDEFGHIJKLMNOPQRSTUVWXYZ")
Digit == CharsOf("0123456789")
AlNum == Alpha \cup Digit
\* \w
WordCh == AlNum \cup {"_"}
\* \s (the members a text of this model can hold)
Space == {" ", "\t", "\n", "\r", "\f"}
HexCh == Digit \cup CharsOf("abcdefABCDEF")

RECURSIVE TrimStart(_)
TrimStart(s) ==
  IF Len(s) > 0 /\ Ch(s, 1) \in Space THEN TrimStart(SubSeq(s, 2, Len(s))) ELSE s

RECURSIVE TrimEnd(_)
TrimEnd(s) ==
  IF Len(s) > 0 /\ Ch(s, Len(s)) \in Space THEN TrimEnd(SubSeq(s, 1, Len(s) - 1)) ELSE s

Trim(s) == TrimEnd(TrimStart(s))

\* String.prototype.split on a one-character separator class: the segments
\* between separators, empty ones included.
RECURSIVE SplitFrom(_, _, _, _)
SplitFrom(s, seps, from, i) ==
  IF \A j \in i..Len(s) : Ch(s, j) \notin seps THEN << SubSeq(s, from, Len(s)) >>
  ELSE LET at == CHOOSE j \in i..Len(s) :
                   Ch(s, j) \in seps /\ \A k \in i..(j - 1) : Ch(s, k) \notin seps
       IN  << SubSeq(s, from, at - 1) >> \o SplitFrom(s, seps, at + 1, at + 1)

Split(s, seps) == SplitFrom(s, seps, 1, 1)

RECURSIVE JoinFrom(_, _, _)
JoinFrom(segs, sep, k) ==
  IF k > Len(segs) THEN ""
  ELSE IF k = Len(segs) THEN segs[k]
  ELSE segs[k] \o sep \o JoinFrom(segs, sep, k + 1)

Join(segs, sep) == JoinFrom(segs, sep, 1)

Range(q) == { q[i] : i \in 1..Len(q) }

RECURSIVE SelectSeqIdx(_, _, _)
\* Array.prototype.filter((_, i) => keep[i])
SelectSeqIdx(q, keep, k) ==
  IF k > Len(q) THEN << >>
  ELSE (IF keep[k] THEN << q[k] >> ELSE << >>) \o SelectSeqIdx(q, keep, k + 1)

(***************************************************************************)
(* ECMAScript regular expressions.  A pattern is a tree.  Run(st, s, i) is *)
(* the backtracking matcher: st is the list of patterns still to match in  *)
(* sequence from offset i of s; the result is the offset where the first   *)
(* successful attempt ends (alternatives tried left to right, greedy       *)
(* quantifiers longest first), or -1 when every attempt fails.             *)
(***************************************************************************)
In(cs) == [t |-> "in", cs |-> cs]
NotIn(cs) == [t |-> "notin", cs |-> cs]
Cat(rs) == [t |-> "cat", rs |-> rs]
Alt(rs) == [t |-> "alt", rs |-> rs]
\* greedy r{min,max}; max = -1 is unbounded
Rep(r, min, max) == [t |-> "rep", r |-> r, min |-> min, max |-> max]
Star(r) == Rep(r, 0, -1)
Plus(r) == Rep(r, 1, -1)
Opt(r) == Rep(r, 0, 1)
\* \b, ^, $ (no m flag)
WordB == [t |-> "wordb"]
Bol == [t |-> "bol"]
Eol == [t |-> "eol"]
\* (?!r); (?<=r) and (?<!r) are the records of kind "behind" and "notbehind"
NotAhead(r) == [t |-> "notahead", r |-> r]
\* matcher bookkeeping: the offset is pos (the kind "moved": it is past pos)
At(pos) == [t |-> "at", pos |-> pos]
C(c) == In({c})
\* a literal run of characters
Lit(str) == [t |-> "lit", str |-> str]
Dot == NotIn({"\n", "\r"})

IsWordAt(s, i) == i >= 1 /\ i <= Len(s) /\ Ch(s, i) \in WordCh

\* how many characters from offset i on belong to the class r, at most cap
\* of them when cap # -1
RunLength(r, s, i, cap) ==
  LET lim == IF cap # -1 /\ cap < Len(s) - i THEN cap ELSE Len(s) - i
      ks == { k \in 0..lim : \A j \in 1..k : (r.t = "in") = (Ch(s, i + j) \in r.cs) }
  IN CHOOSE k \in ks : \A k2 \in ks : k2 <= k

RECURSIVE Run(_, _, _)
RECURSIVE RunAlt(_, _, _, _, _)
RECURSIVE RunGreedy(_, _, _, _, _)

Run(st, s, i) ==
  IF st = << >> THEN i
  ELSE
    LET h == Head(st)
        rest == Tail(st)
    IN CASE h.t = "in" ->
              IF i < Len(s) /\ Ch(s, i + 1) \in h.cs THEN Run(rest, s, i + 1) ELSE -1
         [] h.t = "notin" ->
              IF i < Len(s) /\ Ch(s, i + 1) \notin h.cs THEN Run(rest, s, i + 1) ELSE -1
         [] h.t = "lit" ->
              IF i + Len(h.str) <= Len(s) /\ Slice(s, i, i + Len(h.str)) = h.str
              THEN Run(rest, s, i + Len(h.str)) ELSE -1
         [] h.t = "cat" -> Run(h.rs \o rest, s, i)
         [] h.t = "alt" -> RunAlt(h.rs, 1, rest, s, i)
         [] h.t = "rep" ->
              IF h.r.t \in {"in", "notin"}
              THEN \* a quantified character class: the longest run for which
                   \* the rest of the pattern matches is the first success
                   LET m == RunLength(h.r, s, i, h.max)
                   IN IF m < h.min THEN -1 ELSE RunGreedy(rest, s, i, h.min, m)
              ELSE
                LET again == Rep(h.r, IF h.min > 0 THEN h.min - 1 ELSE 0,
                                 IF h.max = -1 THEN -1 ELSE h.max - 1)
                    more == IF h.max = 0 THEN -1
                            ELSE IF h.min > 0
                                 THEN Run(<< h.r, again >> \o rest, s, i)
                                 ELSE Run(<< h.r, [t |-> "moved", pos |-> i], again >> \o rest, s, i)
                IN IF more # -1 THEN more
                   ELSE IF h.min = 0 THEN Run(rest, s, i) ELSE -1
         [] h.t = "wordb" ->
              IF IsWordAt(s, i) # IsWordAt(s, i + 1) THEN Run(rest, s, i) ELSE -1
         [] h.t = "bol" -> IF i = 0 THEN Run(rest, s, i) ELSE -1
         [] h.t = "eol" -> IF i = Len(s) THEN Run(rest, s, i) ELSE -1
         [] h.t = "at" -> IF i = h.pos THEN Run(rest, s, i) ELSE -1
         [] h.t = "moved" -> IF i > h.pos THEN Run(rest, s, i) ELSE -1
         [] h.t = "behind" ->
              IF \E j \in 0..i : Run(<< h.r, At(i) >>, s, j) # -1
              THEN Run(rest, s, i) ELSE -1
         [] h.t = "notbehind" ->
              IF \E j \in 0..i : Run(<< h.r, At(i) >>, s, j) # -1
              THEN -1 ELSE Run(rest, s, i)
         [] h.t = "notahead" ->
              IF Run(<< h.r >>, s, i) # -1 THEN -1 ELSE Run(rest, s, i)

\* backtracking over the length of a quantified character class: the counts
\* lo..hi are tried from hi down, and the first for which the rest of the
\* pattern matches wins (the upper half of the counts before the lower half)
RunGreedy(rest, s, i, lo, hi) ==
  IF lo = hi THEN Run(rest, s, i + lo)
  ELSE LET mid == (lo + hi + 1) \div 2
           upper == RunGreedy(rest, s, i, mid, hi)
       IN IF upper # -1 THEN upper ELSE RunGreedy(rest, s, i, lo, mid - 1)

RunAlt(rs, n, rest, s, i) ==
  IF n > Len(rs) THEN -1
  ELSE LET e == Run(<< rs[n] >> \o rest, s, i)
       IN IF e # -1 THEN e ELSE RunAlt(rs, n + 1, rest, s, i)

\* every offset at which a match of re starts, with the offset where it ends
Hits(re, s) ==
  { p \in { << i, Run(<< re >>, s, i) >> : i \in 0..Len(s) } : p[2] # -1 }

\* the first of the hits at or after offset from: <<start, end>>, or << >>
FirstHit(hits, from) ==
  LET later == { p \in hits : p[1] >= from }
  IN IF later = {} THEN << >>
     ELSE CHOOSE p \in later : \A q \in later : p[1] <= q[1]

\* RegExp.prototype.exec from offset 0
Exec(re, s) == FirstHit(Hits(re, s), 0)

\* RegExp.prototype.test
Test(re, s) == \E i \in 0..Len(s) : Run(<< re >>, s, i) # -1

\* String.prototype.matchAll / match with the g flag: the matched substrings,
\* scanning left to right, each scan resuming where the last match ended.
RECURSIVE MatchAllFrom(_, _, _)
MatchAllFrom(hits, s, from) ==
  LET m == FirstHit(hits, from)
  IN IF m = << >> THEN << >>
     ELSE << Slice(s, m[1], m[2]) >>
          \o MatchAllFrom(hits, s, IF m[2] = m[1] THEN m[2] + 1 ELSE m[2])

MatchAll(re, s) == MatchAllFrom(Hits(re, s), s, 0)

\* String.prototype.replace(re, repl) without the g flag (repl holds no $)
ReplaceFirst(re, s, repl) ==
  LET m == Exec(re, s)
  IN IF m = << >> THEN s ELSE Slice(s, 0, m[1]) \o repl \o Slice(s, m[2], Len(s))

\* String.prototype.replace(re, repl) with the g flag
RECURSIVE ReplaceAllFrom(_, _, _, _)
ReplaceAllFrom(hits, s, repl, from) ==
  LET m == FirstHit(hits, from)
  IN IF m = << >> THEN Slice(s, from, Len(s))
     ELSE Slice(s, from, m[1]) \o repl
          \o (IF m[2] = m[1]
              THEN Slice(s, m[1], m[1] + 1) \o ReplaceAllFrom(hits, s, repl, m[2] + 1)
              ELSE ReplaceAllFrom(hits, s, repl, m[2]))

RECURSIVE FilterSeq(_, _, _)
\* Array.prototype.filter, keep being a set of the values kept
FilterSeq(q, keep, k) ==
  IF k > Len(q) THEN << >>
  ELSE (IF q[k] \in keep THEN << q[k] >> ELSE << >>) \o FilterSeq(q, keep, k + 1)

(***************************************************************************)
(* node:path, POSIX flavour.                                               *)
(***************************************************************************)
\* process.cwd() of the host process
ProcessCwd == "/w"

isAbsolute(p) == Len(p) > 0 /\ Ch(p, 1) = "/"

\* normalizeString: drops "" and "." segments and resolves ".." against the
\* segments kept so far; above the root ".." is kept only when allowed.
RECURSIVE NormalizeSegs(_, _, _, _)
NormalizeSegs(segs, k, allowAboveRoot, acc) ==
  IF k > Len(segs) THEN acc
  ELSE LET g == segs[k]
       IN IF g = "" \/ g = "." THEN NormalizeSegs(segs, k + 1, allowAboveRoot, acc)
          ELSE IF g = ".."
               THEN IF Len(acc) > 0 /\ acc[Len(acc)] # ".."
                    THEN NormalizeSegs(segs, k + 1, allowAboveRoot, SubSeq(acc, 1, Len(acc) - 1))
                    ELSE IF allowAboveRoot
                         THEN NormalizeSegs(segs, k + 1, allowAboveRoot, Append(acc, g))
                         ELSE NormalizeSegs(segs, k + 1, allowAboveRoot, acc)
               ELSE NormalizeSegs(segs, k + 1, allowAboveRoot, Append(acc, g))

normalizeString(p, allowAboveRoot) ==
  Join(NormalizeSegs(Split(p, {"/"}), 1, allowAboveRoot, << >>), "/")

\* path.normalize
normalize(p) ==
  IF p = "" THEN "."
  ELSE LET abs == isAbsolute(p)
           trailing == EndsWith(p, "/")
           n == normalizeString(p, ~abs)
           m == IF n = "" /\ ~abs THEN "."
                ELSE IF n # "" /\ trailing THEN n \o "/" ELSE n
       IN IF abs THEN "/" \o m ELSE m

\* path.join(a, b)
join(a, b) ==
  IF a = "" /\ b = "" THEN "."
  ELSE IF a = "" THEN normalize(b)
  ELSE IF b = "" THEN normalize(a)
  ELSE normalize(a \o "/" \o b)

\* path.resolve(from, p): right to left until an absolute path is built, the
\* process working directory last.
resolve(from, p) ==
  LET r1 == p
      r2 == IF isAbsolute(r1) \/ from = "" THEN r1 ELSE from \o "/" \o r1
      r3 == IF isAbsolute(r2) THEN r2 ELSE ProcessCwd \o "/" \o r2
  IN "/" \o normalizeString(r3, FALSE)

RECURSIVE TrimEndSlashes(_)
TrimEndSlashes(p) ==
  IF Len(p) > 0 /\ Ch(p, Len(p)) = "/" THEN TrimEndSlashes(SubSeq(p, 1, Len(p) - 1)) ELSE p

\* path.basename(p): the part after the last "/", trailing "/" ignored
basename(p) ==
  LET q == TrimEndSlashes(p) IN
  LET segs == Split(q, {"/"}) IN segs[Len(segs)]

RECURSIVE CommonPrefixLen(_, _, _)
CommonPrefixLen(a, b, k) ==
  IF k < Len(a) /\ k < Len(b) /\ a[k + 1] = b[k + 1] THEN CommonPrefixLen(a, b, k + 1) ELSE k

\* the segments of an absolute, normalized path
AbsSegs(p) == IF p = "/" THEN << >> ELSE Split(Slice(p, 1, Len(p)), {"/"})

\* path.relative(from, to): both resolved, the common leading segments
\* dropped, one ".." for each segment of from that is left
relative(from, to) ==
  LET f == AbsSegs(resolve(ProcessCwd, from))
      t == AbsSegs(resolve(ProcessCwd, to))
      k == CommonPrefixLen(f, t, 0)
  IN Join([j \in 1..(Len(f) - k) |-> ".."] \o SubSeq(t, k + 1, Len(t)), "/")

(***************************************************************************)
(* The ignore policy.                                                      *)
(***************************************************************************)
DEFAULT_IGNORE_DIRS == {"node_modules", ".git", "dist", "build"}
DEFAULT_IGNORE_FILES == {"package-lock.json", "bun.lockb"}

isIgnored(p) ==
  LET segments == Split(p, {"\\", "/"})
  IN IF \E k \in 1..Len(segments) : segments[k] \in DEFAULT_IGNORE_DIRS
     THEN TRUE
     ELSE basename(p) \in DEFAULT_IGNORE_FILES

(***************************************************************************)
(* PATH_REGEX: the nine alternatives, joined with | in this order.         *)
(***************************************************************************)
DQ == "\""
SQ == "'"
\* [\\\/]
Sep == In({"\\", "/"})
\* [^\s\n]
NonSpace == NotIn(Space)
\* [^\s\n"']
NonSpaceQuote == NotIn(Space \cup {DQ, SQ})
\* (?:[\\\/]X+)*
MoreSegs(X) == Star(Cat(<< Sep, Plus(X) >>))

\* (?:\.[\\/]|[^\s\n"']+[\\/])[^\s\n"']+(?:[\\\/][^\s\n"']+)*
ReRelative ==
  Cat(<< Alt(<< Cat(<< C("."), Sep >>), Cat(<< Plus(NonSpaceQuote), Sep >>) >>),
         Plus(NonSpaceQuote), MoreSegs(NonSpaceQuote) >>)

\* a plausible slip: one more well-known name
ReManifestWithReadme ==
  Cat(<< WordB,
         Alt(<< Lit("Dockerfile"), Lit("Makefile"), Lit("Jenkinsfile"), Lit("Vagrantfile"),
                Lit("README") >>),
         WordB >>)

\* \b(?:Dockerfile|Makefile|Jenkinsfile|Vagrantfile)\b
ReManifest ==
  Cat(<< WordB,
         Alt(<< Lit("Dockerfile"), Lit("Makefile"), Lit("Jenkinsfile"), Lit("Vagrantfile") >>),
         WordB >>)

\* the alternatives in their order: quoted, parenthesized, UNC, drive,
\* absolute, relative, indented, standalone file name, manifest name
PATH_REGEX ==
  Alt(<<
    \* "[^"]*[\\\/][^"]*" | '[^']*[\\\/][^']*'
    Alt(<< Cat(<< C(DQ), Star(NotIn({DQ})), Sep, Star(NotIn({DQ})), C(DQ) >>),
           Cat(<< C(SQ), Star(NotIn({SQ})), Sep, Star(NotIn({SQ})), C(SQ) >>) >>),
    \* \([^,)]*[\\\/][^,)]*\([^)]*\)[^,)]*\.[a-zA-Z0-9]+\)
    Cat(<< C("("), Star(NotIn({",", ")"})), Sep, Star(NotIn({",", ")"})),
           C("("), Star(NotIn({")"})), C(")"), Star(NotIn({",", ")"})),
           C("."), Plus(In(AlNum)), C(")") >>),
    \* [\\\/]{2}[^\s\n]+[\\\/][^\s\n]+(?:[\\\/][^\s\n]+)*
    Cat(<< Rep(Sep, 2, 2), Plus(NonSpace), Sep, Plus(NonSpace), MoreSegs(NonSpace) >>),
    \* [a-zA-Z]:[\\\/][^\s\n]+(?:[\\\/][^\s\n]+)*
    Cat(<< In(Alpha), C(":"), Sep, Plus(NonSpace), MoreSegs(NonSpace) >>),
    \* \/[^\s\n"']+(?:[\\\/][^\s\n"']+)*
    Cat(<< C("/"), Plus(NonSpaceQuote), MoreSegs(NonSpaceQuote) >>),
    ReRelative,
    \* (?<=\s) followed by the relative-path alternative
    Cat(<< [t |-> "behind", r |-> In(Space)], ReRelative >>),
    \* (?<!@|https?:\/\/[^\s]*)\b[a-zA-Z0-9_.-]+\.[a-zA-Z0-9]{1,}\b(?!\s*@)(?![^"]*")
    Cat(<< [t |-> "notbehind",
            r |-> Alt(<< C("@"),
                         Cat(<< Lit("http"), Opt(C("s")), Lit("://"), Star(NonSpace) >>) >>)],
           WordB, Plus(In(AlNum \cup {"_", ".", "-"})), C("."), Plus(In(AlNum)), WordB,
           NotAhead(Cat(<< Star(In(Space)), C("@") >>)),
           NotAhead(Cat(<< Star(NotIn({DQ})), C(DQ) >>)) >>),
    ReManifest >>)

(***************************************************************************)
(* extractPathsWithRegex, stage by stage.                                  *)
(***************************************************************************)
RECURSIVE TrimEach(_, _)
TrimEach(q, k) == IF k > Len(q) THEN << >> ELSE << Trim(q[k]) >> \o TrimEach(q, k + 1)

\* step 2: a match holding a line break is cut into the path-shaped pieces in
\* it, the matches of
\* [a-zA-Z0-9_./\\-]+(?:\/[a-zA-Z0-9_.-]+)*\.[a-zA-Z0-9]{1,5}(?::\d+(?::\d+)?)?
RECURSIVE ExtractFromMatches(_, _)
ExtractFromMatches(matches, k) ==
  IF k > Len(matches) THEN << >>
  ELSE (IF Includes(matches[k], "\n")
        THEN TrimEach(
               MatchAll(
                 Cat(<< Plus(In(AlNum \cup {"_", ".", "/", "\\", "-"})),
                        Star(Cat(<< C("/"), Plus(In(AlNum \cup {"_", ".", "-"})) >>)),
                        C("."), Rep(In(AlNum), 1, 5),
                        Opt(Cat(<< C(":"), Plus(In(Digit)),
                                   Opt(Cat(<< C(":"), Plus(In(Digit)) >>)) >>)) >>),
                 matches[k]), 1)
        ELSE << matches[k] >>)
       \o ExtractFromMatches(matches, k + 1)

\* \.[a-zA-Z0-9]{1,5}$
ReHasExtension == Cat(<< C("."), Rep(In(AlNum), 1, 5), Eol >>)

\* step 3, the cleanup chain applied to one candidate, link by link
\* .replace(/[:(]\d+(?:[.,:]\d+)*\)?:?$/, '')
StripLocator(p) ==
  ReplaceFirst(Cat(<< In({":", "("}), Plus(In(Digit)),
                      Star(Cat(<< In({".", ",", ":"}), Plus(In(Digit)) >>)),
                      Opt(C(")")), Opt(C(":")), Eol >>),
               p, "")

\* .replace(/[?#].*$/, '')
StripQuery(p) == ReplaceFirst(Cat(<< In({"?", "#"}), Star(Dot), Eol >>), p, "")

\* surrounding quotes, else surrounding parentheses, else leading and trailing
\* punctuation: .replace(/^["'\[<{]+/, '') and .replace(/["'\]>.,;}]+$/, '')
StripWrapping(p) ==
  IF (StartsWith(p, DQ) /\ EndsWith(p, DQ)) \/ (StartsWith(p, SQ) /\ EndsWith(p, SQ))
  THEN Slice(p, 1, Len(p) - 1)
  ELSE IF StartsWith(p, "(") /\ EndsWith(p, ")")
       THEN Slice(p, 1, Len(p) - 1)
       ELSE ReplaceFirst(
              Cat(<< Plus(In({DQ, SQ, "]", ">", ".", ",", ";", "}"})), Eol >>),
              ReplaceFirst(Cat(<< Bol, Plus(In({DQ, SQ, "[", "<", "{"})) >>), p, ""),
              "")

\* escaped backslashes, except at the head of a UNC path
UnescapeBackslashes(p) ==
  IF ~StartsWith(p, "\\\\") THEN ReplaceAllFrom(Hits(Lit("\\\\"), p), p, "\\", 0) ELSE p

\* a plausible slip: every leading double slash loses one slash
StripDoubleSlashAlways(p) ==
  IF StartsWith(p, "//") THEN Slice(p, 1, Len(p)) ELSE p

\* a leading double slash of what looks like a file path loses one slash
StripDoubleSlash(p) ==
  IF StartsWith(p, "//") /\ ~StartsWith(p, "\\\\")
  THEN IF \/ Test(ReHasExtension, p)
          \/ Len(FilterSeq(Split(p, {"/"}), Range(Split(p, {"/"})) \ {""}, 1)) > 2
       THEN Slice(p, 1, Len(p))
       ELSE p
  ELSE p

\* .replace(/^https?:\/\/[^\/]+/, '')
StripSchemeHost(p) ==
  ReplaceFirst(Cat(<< Bol, Lit("http"), Opt(C("s")), Lit("://"), Plus(NotIn({"/"})) >>),
               p, "")

\* a leading domain name, ^[a-zA-Z0-9.-]+\.[a-zA-Z]{2,}\/, is replaced by '/'
StripDomain(p) ==
  LET domain == Cat(<< Bol, Plus(In(AlNum \cup {".", "-"})), C("."), Rep(In(Alpha), 2, -1),
                       C("/") >>)
  IN IF Test(domain, p) THEN ReplaceFirst(domain, p, "/") ELSE p

CleanPath(p) ==
  StripDomain(StripSchemeHost(StripDoubleSlash(UnescapeBackslashes(
    StripWrapping(StripQuery(StripLocator(p)))))))

RECURSIVE CleanEach(_, _)
CleanEach(q, k) == IF k > Len(q) THEN << >> ELSE << CleanPath(q[k]) >> \o CleanEach(q, k + 1)

\* ^[a-zA-Z]?v?\d+(?:\.\d+)*$
versionPattern ==
  Cat(<< Bol, Opt(In(Alpha)), Opt(C("v")), Plus(In(Digit)),
         Star(Cat(<< C("."), Plus(In(Digit)) >>)), Eol >>)
\* ^[a-f0-9]{8}-[a-f0-9]{4}-[a-f0-9]{4}-[a-f0-9]{4}-[a-f0-9]{12}$ with the i flag
uuidPattern ==
  Cat(<< Bol, Rep(In(HexCh), 8, 8), C("-"), Rep(In(HexCh), 4, 4), C("-"),
         Rep(In(HexCh), 4, 4), C("-"), Rep(In(HexCh), 4, 4), C("-"),
         Rep(In(HexCh), 12, 12), Eol >>)
\* ^[a-f0-9]{7,40}$ with the i flag
hashPattern == Cat(<< Bol, Rep(In(HexCh), 7, 40), Eol >>)
\* ^[a-zA-Z0-9._%+-]+@[a-zA-Z0-9.-]+\.[a-zA-Z]{2,}$
emailPattern ==
  Cat(<< Bol, Plus(In(AlNum \cup {".", "_", "%", "+", "-"})), C("@"),
         Plus(In(AlNum \cup {".", "-"})), C("."), Rep(In(Alpha), 2, -1), Eol >>)
MaxPathLength == 200

\* step 5: the predicate of validPaths
\* a plausible slip: relative module references kept
IsModuleReferenceNever(p) == FALSE

\* a relative import module reference without a file extension
IsModuleReference(p) ==
  /\ StartsWith(p, "./") \/ StartsWith(p, "../")
  /\ ~Includes(p, " ")
  /\ ~Test(ReHasExtension, p)
  /\ Len(Split(p, {"/"})) <= 3

\* a plausible slip: the closing emptiness test left out
NotBlankUnchecked(p) == TRUE

\* p.trim() !== ''
NotBlank(p) == Trim(p) # ""

\* a plausible slip: the four shape tests left out
IsValidPathAnyShape(p) ==
  LET parts == Split(p, {"."})
      lastPart == parts[Len(parts)]
  IN IF Includes(p, "\n") \/ Len(p) > MaxPathLength THEN FALSE
     ELSE IF /\ Includes(p, ".") /\ ~Includes(p, "/") /\ ~Includes(p, "\\")
             /\ Len(parts) > 1
             /\ \/ ~Test(Cat(<< Bol, Rep(In(AlNum), 1, 5), Eol >>), lastPart)
                \/ lastPart \in {"setAnalysisResults", "updateGitignore"}
          THEN FALSE
     ELSE IF StartsWith(p, DQ) /\ EndsWith(p, DQ) THEN FALSE
     ELSE IF IsModuleReference(p) THEN FALSE
     ELSE NotBlank(p)

IsValidPath(p) ==
  LET parts == Split(p, {"."})
      lastPart == parts[Len(parts)]
  IN IF Includes(p, "\n") \/ Len(p) > MaxPathLength THEN FALSE
     ELSE IF /\ Includes(p, ".") /\ ~Includes(p, "/") /\ ~Includes(p, "\\")
             /\ Len(parts) > 1
             /\ \/ ~Test(Cat(<< Bol, Rep(In(AlNum), 1, 5), Eol >>), lastPart)
                \/ lastPart \in {"setAnalysisResults", "updateGitignore"}
          THEN FALSE
     ELSE IF StartsWith(p, DQ) /\ EndsWith(p, DQ) THEN FALSE
     ELSE IF IsModuleReference(p) THEN FALSE
     ELSE /\ ~Test(versionPattern, p)
          /\ ~Test(uuidPattern, p)
          /\ ~Test(hashPattern, p)
          /\ ~Test(emailPattern, p)
          /\ NotBlank(p)

RECURSIVE FilterNotIgnored(_, _)
\* step 4
FilterNotIgnored(q, k) ==
  IF k > Len(q) THEN << >>
  ELSE (IF ~isIgnored(q[k]) THEN << q[k] >> ELSE << >>) \o FilterNotIgnored(q, k + 1)

RECURSIVE FilterValid(_, _)
FilterValid(q, k) ==
  IF k > Len(q) THEN << >>
  ELSE (IF IsValidPath(q[k]) THEN << q[k] >> ELSE << >>) \o FilterValid(q, k + 1)

\* the merge branch of fixSplitPaths; its last step is
\* combined.replace(/ new\)\.([a-zA-Z0-9]+)$/, ' (new).$1')
CombineSplit(current, next) ==
  LET combined == current \o " " \o next
      stripped == IF StartsWith(combined, "(") THEN Slice(combined, 1, Len(combined))
                  ELSE combined
      m == Exec(Cat(<< Lit(" new)."), Plus(In(AlNum)), Eol >>), stripped)
  IN IF m = << >> THEN stripped
     ELSE Slice(stripped, 0, m[1]) \o " (new)."
          \o Slice(stripped, m[1] + Len(" new)."), Len(stripped))

\* the condition of the merge branch; the last test is /\).*\.[a-zA-Z0-9]+$/
IsSplitPair(paths, i) ==
  /\ i < Len(paths)
  /\ paths[i] # ""
  /\ StartsWith(paths[i], "(") \/ EndsWith(paths[i], "(")
  /\ paths[i + 1] # ""
  /\ Test(Cat(<< C(")"), Star(Dot), C("."), Plus(In(AlNum)), Eol >>), paths[i + 1])

\* a plausible slip: i++ after a merge
RECURSIVE fixSplitPathsRescanning(_, _)
fixSplitPathsRescanning(paths, i) ==
  IF i > Len(paths) THEN << >>
  ELSE IF IsSplitPair(paths, i)
       THEN << CombineSplit(paths[i], paths[i + 1]) >> \o fixSplitPathsRescanning(paths, i + 1)
       ELSE << paths[i] >> \o fixSplitPathsRescanning(paths, i + 1)

\* step 6 (i is 1-based here)
RECURSIVE fixSplitPathsFrom(_, _)
fixSplitPathsFrom(paths, i) ==
  IF i > Len(paths) THEN << >>
  ELSE IF IsSplitPair(paths, i)
       THEN << CombineSplit(paths[i], paths[i + 1]) >> \o fixSplitPathsFrom(paths, i + 2)
       ELSE << paths[i] >> \o fixSplitPathsFrom(paths, i + 1)

fixSplitPaths(paths) == fixSplitPathsFrom(paths, 1)

\* a plausible slip: a PATH_REGEX.exec(text) or PATH_REGEX.test(text) ahead
\* of the scan, which leaves the shared pattern where its match ended
execLastIndex(from, hits) ==
  IF FirstHit(hits, from) = << >> THEN 0 ELSE FirstHit(hits, from)[2]

\* PATH_REGEX.lastIndex after text.matchAll(PATH_REGEX) has been iterated:
\* matchAll scans with a clone of the pattern that starts at the pattern's
\* lastIndex, and writes nothing to the pattern
matchAllLastIndex(from, hits) == from

\* matches (scanned from PATH_REGEX.lastIndex), extraction, cleanup, ignore
\* filter, validity filter, split repair
extractPathsWithRegexFrom(text, from) ==
  fixSplitPaths(
    FilterValid(
      FilterNotIgnored(
        CleanEach(ExtractFromMatches(MatchAllFrom(Hits(PATH_REGEX, text), text, from), 1),
                  1), 1), 1))

\* the same with the pattern as the module created it
extractPathsWithRegex(text) == extractPathsWithRegexFrom(text, 0)

(***************************************************************************)
(* The filesystem: the regular files that exist (absolute paths), the      *)
(* directories whose listing fails, and the order in which a directory is  *)
(* listed.  Directories are the proper ancestors of the files.             *)
(***************************************************************************)
\* every file a tree of this model can hold, in listing order
FileUniverse ==
  << "/w/.env", "/w/a.ts", "/w/src/a.ts", "/w/src/b.ts", "/w/dist/a.ts", "/w/src/bun.lockb",
     "/w/p/a.ts", "/w/p/lib/b.ts" >>

RECURSIVE Reverse(_)
Reverse(q) == IF q = << >> THEN << >> ELSE Reverse(Tail(q)) \o << Head(q) >>

\* the absolute path of the ancestor of f with n segments
Ancestor(f, n) == "/" \o Join(SubSeq(AbsSegs(f), 1, n), "/")

DirsOf(fileSet) ==
  UNION { { Ancestor(f, n) : n \in 0..(Len(AbsSegs(f)) - 1) } : f \in fileSet }

\* what the kernel makes of a path name handed to a system call
Locate(p) == resolve(ProcessCwd, p)

\* the names in directory d, in listing order, each with its kind
Entries(fileSet, order, d) ==
  LET depth == Len(AbsSegs(d))
      all == IF order = "forward" THEN FileUniverse ELSE Reverse(FileUniverse)
      under == SelectSeq(all, LAMBDA f : f \in fileSet /\ Len(AbsSegs(f)) > depth
                                         /\ Ancestor(f, depth) = d)
      names == [k \in 1..Len(under) |-> AbsSegs(under[k])[depth + 1]]
      isDir == [k \in 1..Len(under) |-> Len(AbsSegs(under[k])) > depth + 1]
      firsts == { k \in 1..Len(under) : \A j \in 1..(k - 1) : names[j] # names[k] }
  IN SelectSeqIdx([k \in 1..Len(under) |-> [name |-> names[k], isDirectory |-> isDir[k]]],
                  [k \in 1..Len(under) |-> k \in firsts], 1)

\* fs.readdir(dir) succeeds
CanReadDir(fileSet, noRead, dir) ==
  Locate(dir) \in DirsOf(fileSet) /\ Locate(dir) \notin noRead

RECURSIVE walk(_, _, _, _)
RECURSIVE walkEntries(_, _, _, _, _, _)

\* the loop with the try around the whole of it and none below: a directory
\* that cannot be listed ends the loop of its parent
walkEntriesAborting(fileSet, noRead, order, dir, entries, k) ==
  IF k > Len(entries) THEN << >>
  ELSE LET fullPath == join(dir, entries[k].name)
       IN IF entries[k].isDirectory /\ ~CanReadDir(fileSet, noRead, fullPath)
          THEN << >>
          ELSE (IF entries[k].isDirectory
                THEN walk(fileSet, noRead, order, fullPath)
                ELSE << fullPath >>)
               \o walkEntries(fileSet, noRead, order, dir, entries, k + 1)

\* the loop over the entries of dir
walkEntries(fileSet, noRead, order, dir, entries, k) ==
  IF k > Len(entries) THEN << >>
  ELSE LET fullPath == join(dir, entries[k].name)
       IN (IF entries[k].isDirectory
           THEN walk(fileSet, noRead, order, fullPath)
           ELSE << fullPath >>)
          \o walkEntries(fileSet, noRead, order, dir, entries, k + 1)

walk(fileSet, noRead, order, dir) ==
  IF ~CanReadDir(fileSet, noRead, dir) THEN << >>
  ELSE walkEntries(fileSet, noRead, order, dir, Entries(fileSet, order, Locate(dir)), 1)

\* the directories walk reads (lists or fails to list), dir first
RECURSIVE walkReads(_, _, _, _)
walkReads(fileSet, noRead, order, dir) ==
  {Locate(dir)} \cup
  (IF ~CanReadDir(fileSet, noRead, dir) THEN {}
   ELSE LET es == Entries(fileSet, order, Locate(dir))
        IN UNION { IF es[k].isDirectory
                   THEN walkReads(fileSet, noRead, order, join(dir, es[k].name))
                   ELSE {} : k \in 1..Len(es) })

(***************************************************************************)
(* extractPathsWithFuzzy.                                                  *)
(***************************************************************************)
\* basename.replace(/[-\/\\^$*+?.()|[\]{}]/g, '\\$&')
RECURSIVE EscapeRegExp(_)
EscapeRegExp(str) ==
  IF str = "" THEN ""
  ELSE (IF Ch(str, 1) \in CharsOf("-/\\^$*+?.()|[]{}") THEN "\\" \o Ch(str, 1) ELSE Ch(str, 1))
       \o EscapeRegExp(SubSeq(str, 2, Len(str)))

\* new RegExp(src) for a source made of escaped characters, plain characters
\* and "."; the list of patterns to match in sequence
RECURSIVE CompileAtoms(_)
CompileAtoms(src) ==
  IF src = "" THEN << >>
  ELSE IF Ch(src, 1) = "\\" /\ Len(src) >= 2
       THEN << C(Ch(src, 2)) >> \o CompileAtoms(SubSeq(src, 3, Len(src)))
       ELSE << IF Ch(src, 1) = "." THEN Dot ELSE C(Ch(src, 1)) >>
            \o CompileAtoms(SubSeq(src, 2, Len(src)))

\* Array.from(new Set(q)): first occurrences, in order
RECURSIVE Dedupe(_, _)
Dedupe(q, k) ==
  IF k > Len(q) THEN << >>
  ELSE (IF \E j \in 1..(k - 1) : q[j] = q[k] THEN << >> ELSE << q[k] >>) \o Dedupe(q, k + 1)

RECURSIVE fuzzyLoop(_, _, _, _)

\* the loop without the test of the text: every file that is not ignored
fuzzyLoopUntested(text, cwd, allFilePaths, k) ==
  IF k > Len(allFilePaths) THEN << >>
  ELSE LET relativePath == relative(cwd, allFilePaths[k])
       IN (IF isIgnored(relativePath) THEN << >> ELSE << relativePath >>)
          \o fuzzyLoop(text, cwd, allFilePaths, k + 1)

\* the loop; the test is text.match(new RegExp(`\\b${escaped basename}\\b`, 'g'))
fuzzyLoop(text, cwd, allFilePaths, k) ==
  IF k > Len(allFilePaths) THEN << >>
  ELSE LET relativePath == relative(cwd, allFilePaths[k])
       IN (IF isIgnored(relativePath) THEN << >>
           ELSE IF Test(Cat(<< WordB >> \o CompileAtoms(EscapeRegExp(basename(relativePath)))
                                        \o << WordB >>), text)
                THEN << relativePath >> ELSE << >>)
          \o fuzzyLoop(text, cwd, allFilePaths, k + 1)

extractPathsWithFuzzy(text, cwd, fileSet, noRead, order) ==
  Dedupe(fuzzyLoop(text, cwd, walk(fileSet, noRead, order, cwd), 1), 1)

(***************************************************************************)
(* Bounded inputs.                                                         *)
(***************************************************************************)
\* a text is at most MaxWords words, single-spaced
MaxWords == 2

\* the texts of at most n words drawn from ws
RECURSIVE TextsOf(_, _)
TextsOf(ws, n) ==
  IF n = 0 THEN {""}
  ELSE LET shorter == TextsOf(ws, n - 1)
       IN shorter \cup ws \cup { t \o " " \o w : t \in shorter \ {""}, w \in ws }

\* the filesystems a run can start in
Worlds ==
  { [files |-> {}, noRead |-> {}, order |-> "forward"],
    [files |-> {"/w/a.ts"}, noRead |-> {}, order |-> "forward"],
    [files |-> {"/w/a.ts", "/w/src/a.ts"}, noRead |-> {}, order |-> "forward"],
    [files |-> {"/w/a.ts", "/w/src/a.ts"}, noRead |-> {}, order |-> "backward"],
    [files |-> {"/w/a.ts", "/w/src/a.ts"}, noRead |-> {"/w/src"}, order |-> "forward"],
    [files |-> {"/w/a.ts", "/w/src/a.ts"}, noRead |-> {"/w"}, order |-> "forward"],
    [files |-> {"/w/.env", "/w/a.ts"}, noRead |-> {}, order |-> "forward"],
    [files |-> {"/w/src/a.ts", "/w/src/b.ts"}, noRead |-> {}, order |-> "backward"],
    [files |-> {"/w/src/a.ts", "/w/dist/a.ts", "/w/src/bun.lockb"}, noRead |-> {},
     order |-> "forward"],
    [files |-> {"/w/a.ts", "/w/p/a.ts", "/w/p/lib/b.ts"}, noRead |-> {}, order |-> "forward"],
    [files |-> {"/w/a.ts", "/w/p/a.ts", "/w/p/lib/b.ts"}, noRead |-> {"/w/p/lib"},
     order |-> "backward"] }

\* the options object of a call: the keys given, and their values (a key
\* that is not given holds the value its default would give)
ValidStrategies == {"regex", "fuzzy", "both"}

\* the cwd option: the process's directory, or a relative directory
Cwds == {ProcessCwd, "p"}

OptionsSet ==
  { [given |-> {}, strategy |-> "fuzzy", unique |-> TRUE, absolute |-> FALSE,
     cwd |-> ProcessCwd] }
  \cup
  [ given : {{"strategy", "unique", "absolute", "cwd"}},
    strategy : ValidStrategies \cup {"pattern"},
    unique : BOOLEAN,
    absolute : BOOLEAN,
    cwd : Cwds ]

\* a plausible slip: the pattern strategy as the default one
OptionOrRegexFirst(o, key, default) ==
  IF key \in o.given THEN o[key] ELSE IF key = "strategy" THEN "regex" ELSE default

\* destructuring with a default
OptionOr(o, key, default) == IF key \in o.given THEN o[key] ELSE default

(***************************************************************************)
(* extractPaths.                                                           *)
(***************************************************************************)
\* combinedPaths after the two strategy branches
\* a plausible slip: the two branches pushed in the other order
CombinePathsFuzzyFirst(strategy, regexOut, fuzzyOut) ==
  (IF strategy = "fuzzy" \/ strategy = "both" THEN fuzzyOut ELSE << >>)
  \o (IF strategy = "regex" \/ strategy = "both" THEN regexOut ELSE << >>)

CombinePaths(strategy, regexOut, fuzzyOut) ==
  (IF strategy = "regex" \/ strategy = "both" THEN regexOut ELSE << >>)
  \o (IF strategy = "fuzzy" \/ strategy = "both" THEN fuzzyOut ELSE << >>)

\* uniquePaths
UniquePaths(unique, combined) == IF unique THEN Dedupe(combined, 1) ELSE combined

\* a plausible slip: cwd glued in front instead of path.resolve
ResolvePathsGlued(absolute, cwd, paths) ==
  IF absolute THEN [k \in 1..Len(paths) |-> cwd \o "/" \o paths[k]] ELSE paths

\* a plausible slip: duplicates dropped once more after path.resolve
ResolvePathsThenDedupe(absolute, cwd, paths) ==
  IF absolute THEN Dedupe([k \in 1..Len(paths) |-> resolve(cwd, paths[k])], 1) ELSE paths

\* resolvedPaths
ResolvePaths(absolute, cwd, paths) ==
  IF absolute THEN [k \in 1..Len(paths) |-> resolve(cwd, paths[k])] ELSE paths

(***************************************************************************)
(* verifyPaths.                                                            *)
(***************************************************************************)
\* the longest list handed to verifyPaths
MaxPaths == 3



\* the filesystem as fs.access sees it: how a probe of each location ends
\* ("ok", or the error: "ENOENT", "EACCES", "EIO")
AccessMap(wa, wpa, wlb, wplb) ==
  [l \in {"/w/a.ts", "/w/p/a.ts", "/w/lib/b.ts", "/w/p/lib/b.ts"} |->
     CASE l = "/w/a.ts" -> wa
       [] l = "/w/p/a.ts" -> wpa
       [] l = "/w/lib/b.ts" -> wlb
       [] OTHER -> wplb]

\* a plausible slip: the cwd argument not used
absolutePathInProcessCwd(p, baseDir) ==
  IF isAbsolute(p) THEN p ELSE resolve(ProcessCwd, p)

\* const absolutePath = path.isAbsolute(p) ? p : path.resolve(cwd, p)
absolutePath(p, baseDir) == IF isAbsolute(p) THEN p ELSE resolve(baseDir, p)

\* await fs.access(location): the outcome the filesystem gives for the place
\* the operating system finds the path at
fsAccess(fsMap, location) == fsMap[Locate(location)]

\* a plausible slip: only "not found" caught
CheckSettlesRethrowing(outcome) ==
  IF outcome = "ok" THEN "true" ELSE IF outcome = "ENOENT" THEN "false" ELSE "rejected"

\* try { await fs.access(..); return true } catch { return false }: what the
\* promise of one check settles to ("rejected" if the async function throws)
CheckSettles(outcome) == IF outcome = "ok" THEN "true" ELSE "false"

\* a plausible slip: results collected as they arrive
PromiseAllBySettling(settled, order) ==
  [k \in 1..Len(settled) |-> settled[order[k]] = "true"]

\* await Promise.all(checks): the settled values, by position in checks,
\* whatever the order they settled in
PromiseAll(settled, order) == [i \in 1..Len(settled) |-> settled[i] = "true"]

\* paths.filter((_, i) => existenceChecks[i])
FilterExisting(ps, keep) == SelectSeqIdx(ps, keep, 1)

(***************************************************************************)
(* runPipeline and createFormatter.                                        *)
(***************************************************************************)
\* the options object of a pipeline call: none, or every key but unique, or
\* every key but unique and verify
PipelineOptionsSet ==
  { [given |-> {}, strategy |-> "fuzzy", absolute |-> FALSE, cwd |-> ProcessCwd,
     verify |-> TRUE, format |-> "json", pretty |-> TRUE] }
  \cup
  [ given : {{"strategy", "absolute", "cwd", "verify", "format", "pretty"}},
    strategy : ValidStrategies,
    absolute : BOOLEAN,
    cwd : Cwds,
    verify : BOOLEAN,
    format : {"json", "list"},
    pretty : BOOLEAN ]
  \cup
  [ given : {{"strategy", "absolute", "cwd", "format", "pretty"}},
    strategy : ValidStrategies,
    absolute : BOOLEAN,
    cwd : Cwds,
    verify : {TRUE},
    format : {"json", "list"},
    pretty : BOOLEAN ]

\* a plausible slip: verification as an opt-in
ShouldVerifyOptIn(o) == OptionOr(o, "verify", FALSE)

\* verify: shouldVerify = true
ShouldVerify(o) == OptionOr(o, "verify", TRUE)

\* the operating system's lookup of an absolute path name in the tree w (no
\* symbolic links), component by component from the directory dir on: every
\* component but the last has to be a directory that exists, ".." included
RECURSIVE Lookup(_, _, _, _)
Lookup(w, names, k, dir) ==
  IF k > Len(names) THEN "ok"
  ELSE LET child == IF dir = "/" THEN "/" \o names[k] ELSE dir \o "/" \o names[k]
       IN IF names[k] \in {"", "."} THEN Lookup(w, names, k + 1, dir)
          ELSE IF names[k] = ".."
               THEN Lookup(w, names, k + 1,
                           IF dir = "/" THEN "/" ELSE Ancestor(dir, Len(AbsSegs(dir)) - 1))
          ELSE IF child \in DirsOf(w.files) THEN Lookup(w, names, k + 1, child)
          ELSE IF child \in w.files THEN (IF k = Len(names) THEN "ok" ELSE "ENOTDIR")
          ELSE "ENOENT"

\* verifyPaths(ps, cwd) in the tree w: fs.access hands each path name to the
\* operating system as it is
verifyPathsIn(w, ps, cwd) ==
  LET settled == [i \in 1..Len(ps) |->
                    CheckSettles(Lookup(w, Split(absolutePath(ps[i], cwd), {"/"}), 1, "/"))]
  IN FilterExisting(ps, PromiseAll(settled, [i \in 1..Len(ps) |-> i]))

\* JSON.stringify of a string: quotes around it, and a backslash escape for
\* a quote, a backslash and the control characters a text can hold
RECURSIVE JsonEscape(_)
JsonEscape(str) ==
  IF str = "" THEN ""
  ELSE (CASE Ch(str, 1) = DQ -> "\\" \o DQ
          [] Ch(str, 1) = "\\" -> "\\\\"
          [] Ch(str, 1) = "\n" -> "\\n"
          [] Ch(str, 1) = "\r" -> "\\r"
          [] Ch(str, 1) = "\t" -> "\\t"
          [] Ch(str, 1) = "\f" -> "\\f"
          [] OTHER -> Ch(str, 1))
       \o JsonEscape(SubSeq(str, 2, Len(str)))

\* JSON.stringify(ps, null, pretty ? 2 : undefined) of an array of strings
JsonStringify(ps, pretty) ==
  LET items == [i \in 1..Len(ps) |-> DQ \o JsonEscape(ps[i]) \o DQ]
  IN IF ps = << >> THEN "[]"
     ELSE IF pretty THEN "[\n  " \o Join(items, ",\n  ") \o "\n]"
     ELSE "[" \o Join(items, ",") \o "]"

\* yaml.dump(ps) of an array of strings that js-yaml writes plain, as the
\* paths of the fixtures are: one "- " line each, and "[]" for no string
RECURSIVE YamlDump(_)
YamlDump(ps) ==
  IF ps = << >> THEN "[]\n"
  ELSE "- " \o Head(ps) \o "\n" \o (IF Len(ps) = 1 THEN "" ELSE YamlDump(Tail(ps)))

\* a plausible slip: no guard at creation
KnownFormatUnguarded(format) == TRUE

\* ['json', 'yaml', 'list'].includes(format): createFormatter throws
\* 'Unknown format: <format>' when it does not hold
KnownFormat(format) == format \in {"json", "yaml", "list"}

\* createFormatter(format, pretty)(ps), for a format createFormatter took (the
\* switch has no default: the function returned ends without a value)
createFormatter(format, pretty, ps) ==
  CASE format = "json" -> JsonStringify(ps, pretty)
    [] format = "yaml" -> YamlDump(ps)
    [] format = "list" -> Join(ps, "\n")
    [] OTHER -> "undefined"

(***************************************************************************)
(* The lists fixSplitPaths is asked about.                                 *)
(***************************************************************************)
\* the longest such list
MaxSplitPaths == 3

(***************************************************************************)
(* The paths isIgnored is asked about.                                     *)
(***************************************************************************)
\* the most segments of such a path
MaxSegments == 2

\* the paths of at most n segments
RECURSIVE IgnorePathsOf(_)
IgnorePathsOf(n) ==
  LET segments == {"dist", "distribution", "bun.lockb", "my-package.json", "src", ""}
  IN IF n = 1 THEN segments
     ELSE LET shorter == IgnorePathsOf(n - 1)
          IN shorter \cup { p \o sep \o g : p \in shorter, sep \in {"/", "\\"},
                                            g \in segments }


VARIABLES
  pc,              \* where the call under way stands ("idle" before it)
  text,            \* extractPaths: the text handed in
  world,           \* extractPaths: the filesystem (files, unlistable directories, listing order)
  opts,            \* extractPaths: the options of the call
  regexPaths,      \* extractPaths: what extractPathsWithRegex returned (<< >> when not run)
  allFilePaths,    \* extractPaths: what walk(cwd) returned (<< >> when not run)
  fuzzyPaths,      \* extractPaths: what extractPathsWithFuzzy returned (<< >> when not run)
  combinedPaths,   \* extractPaths: combinedPaths
  uniquePaths,     \* extractPaths: uniquePaths
  resolvedPaths,   \* extractPaths: the value returned
  dirsRead,        \* extractPaths: the directories the call listed or tried to list
  lastIndex,       \* core.ts: PATH_REGEX.lastIndex, the scan position of the shared pattern
  earlier,         \* extractPaths: the options and the value of the call before this one
  paths,           \* verifyPaths: the list handed in
  baseDir,         \* verifyPaths: the cwd argument
  fsMap,           \* verifyPaths: the outcome fs.access gives at each location
  outcomes,        \* verifyPaths: per entry, how its fs.access ended ("pending" before)
  checks,          \* verifyPaths: per entry, what its promise in checks settled to
  settleOrder,     \* verifyPaths: the entries' positions in the order their probes ended
  existenceChecks, \* verifyPaths: existenceChecks
  existingPaths,   \* verifyPaths: the value returned
  candidate,       \* isIgnored: the path asked about
  ignored,         \* isIgnored: the value returned
  splitPaths,      \* fixSplitPaths: the list handed in
  fixedPaths,      \* fixSplitPaths: the value returned
  verifiedPaths,   \* runPipeline: verifiedPaths
  formattedOutput, \* runPipeline: the value returned
  rejection,       \* runPipeline: the message of the error thrown ("" when none)
  cliArgs,         \* run: args, as mri parsed the command line
  isTTY,           \* run: process.stdin.isTTY and process.stdout.isTTY
  wantsCopy,       \* run: wantsCopy
  stdout,          \* run: what was written to the standard output, in order
  stderr,          \* run: what was written to the standard error, in order
  clipboard        \* run: what was copied to the clipboard, in order

extractVars ==
  << text, world, opts, regexPaths, allFilePaths, fuzzyPaths, combinedPaths,
     uniquePaths, resolvedPaths, dirsRead, lastIndex, earlier >>

verifyVars ==
  << paths, baseDir, fsMap, outcomes, checks, settleOrder, existenceChecks, existingPaths >>

ignoreVars == << candidate, ignored >>

splitVars == << splitPaths, fixedPaths >>

pipelineVars == << verifiedPaths, formattedOutput, rejection >>

cliVars == << cliArgs, isTTY, wantsCopy, stdout, stderr, clipboard >>

vars == << pc, extractVars, verifyVars, ignoreVars, splitVars, pipelineVars, cliVars >>

\* nothing computed yet by extractPaths
ExtractFresh ==
  /\ opts = CHOOSE o \in OptionsSet : o.given = {}
  /\ regexPaths = << >>
  /\ allFilePaths = << >>
  /\ fuzzyPaths = << >>
  /\ combinedPaths = << >>
  /\ uniquePaths = << >>
  /\ resolvedPaths = << >>
  /\ dirsRead = {}

\* nothing computed yet by verifyPaths
VerifyFresh ==
  /\ outcomes = << >>
  /\ checks = << >>
  /\ settleOrder = << >>
  /\ existenceChecks = << >>
  /\ existingPaths = << >>

\* extractPaths is not the call under study
ExtractUnused ==
  /\ text = ""
  /\ world = [files |-> {}, noRead |-> {}, order |-> "forward"]
  /\ ExtractFresh
  /\ lastIndex = 0
  /\ earlier = << >>

\* verifyPaths is not the call under study
VerifyUnused ==
  /\ paths = << >>
  /\ baseDir = ProcessCwd
  /\ fsMap = AccessMap("ENOENT", "ENOENT", "ENOENT", "ENOENT")
  /\ VerifyFresh

\* isIgnored is not the call under study
IgnoreUnused ==
  /\ candidate = ""
  /\ ignored = FALSE

\* fixSplitPaths is not the call under study
SplitUnused ==
  /\ splitPaths = << >>
  /\ fixedPaths = << >>

\* runPipeline is not the call under study, or has not gone past extraction
PipelineUnused ==
  /\ verifiedPaths = << >>
  /\ formattedOutput = ""
  /\ rejection = ""

\* the command line is not what is under study
CliUnused ==
  /\ cliArgs = [given |-> {}]
  /\ isTTY = [stdin |-> FALSE, stdout |-> FALSE]
  /\ wantsCopy = FALSE
  /\ stdout = << >>
  /\ stderr = << >>
  /\ clipboard = << >>

(***************************************************************************)
(* Spec: one call of extractPaths on any text, filesystem and options.     *)
(***************************************************************************)
Init ==
  /\ pc = "idle"
  /\ text \in TextsOf({ "src/a.ts", "a.ts", "(dist/a", "b/n).ts", "dist/a.ts",
                         "bun.lockb", "http://h", "/w/a.ts" }, MaxWords)
  /\ world \in Worlds
  /\ ExtractFresh
  /\ lastIndex = 0
  /\ earlier = << >>
  /\ VerifyUnused
  /\ IgnoreUnused
  /\ SplitUnused
  /\ PipelineUnused
  /\ CliUnused

\* a plausible slip: both branches run whatever the strategy is
FinishRunningBoth(o, regexOut, walked, fuzzyOut, readsOut) ==
  LET uniq == UniquePaths(OptionOr(o, "unique", TRUE), regexOut \o fuzzyOut)
  IN /\ opts' = o
     /\ regexPaths' = regexOut
     /\ allFilePaths' = walked
     /\ fuzzyPaths' = fuzzyOut
     /\ combinedPaths' = regexOut \o fuzzyOut
     /\ uniquePaths' = uniq
     /\ resolvedPaths' = ResolvePaths(OptionOr(o, "absolute", FALSE),
                                      OptionOr(o, "cwd", ProcessCwd), uniq)
     /\ dirsRead' = readsOut

\* the rest of extractPaths once the strategy branches have produced
\* regexOut and fuzzyOut (each is used only when its branch runs)
Finish(o, regexOut, walked, fuzzyOut, readsOut) ==
  LET absolute == OptionOr(o, "absolute", FALSE)
      cwd == OptionOr(o, "cwd", ProcessCwd)
      unique == OptionOr(o, "unique", TRUE)
      strategy == OptionOr(o, "strategy", "fuzzy")
      runRegex == strategy = "regex" \/ strategy = "both"
      runFuzzy == strategy = "fuzzy" \/ strategy = "both"
      rx == IF runRegex THEN regexOut ELSE << >>
      fz == IF runFuzzy THEN fuzzyOut ELSE << >>
      combined == CombinePaths(strategy, rx, fz)
      uniq == UniquePaths(unique, combined)
  IN /\ opts' = o
     /\ regexPaths' = rx
     /\ allFilePaths' = IF runFuzzy THEN walked ELSE << >>
     /\ fuzzyPaths' = fz
     /\ combinedPaths' = combined
     /\ uniquePaths' = uniq
     /\ resolvedPaths' = ResolvePaths(absolute, cwd, uniq)
     /\ dirsRead' = IF runFuzzy THEN readsOut ELSE {}

\* the calls, with options out of os, whose cwd is c
CallsIn(os, c, regexOut, walked, fuzzyOut, readsOut) ==
  \E o \in { x \in os : OptionOr(x, "cwd", ProcessCwd) = c } :
    Finish(o, regexOut, walked, fuzzyOut, readsOut)

\* the calls, with options out of os, on a text whose pattern branch yields
\* regexOut
CallsOn(os, regexOut) ==
  /\ \E c \in Cwds :
       CallsIn(os, c, regexOut,
               walk(world.files, world.noRead, world.order, c),
               extractPathsWithFuzzy(text, c, world.files, world.noRead, world.order),
               walkReads(world.files, world.noRead, world.order, c))
  /\ lastIndex' = IF OptionOr(opts', "strategy", "fuzzy") = "fuzzy" THEN lastIndex
                  ELSE matchAllLastIndex(lastIndex, Hits(PATH_REGEX, text))

\* one call of extractPaths(text, o), from entry to the returned promise's value
ExtractPaths ==
  /\ pc = "idle"
  /\ CallsOn(OptionsSet, extractPathsWithRegexFrom(text, lastIndex))
  /\ pc' = "returned"
  /\ UNCHANGED << text, world, earlier, verifyVars, ignoreVars, splitVars, pipelineVars, cliVars >>

Next == ExtractPaths

Spec == Init /\ [][Next]_vars

(***************************************************************************)
(* SpecFuzzy: one call of extractPaths on a text that names files.         *)
(***************************************************************************)
\* the words: names of files, a name inside a longer token, a name that
\* starts with a dot, a name no tree holds
InitFuzzy ==
  /\ pc = "idle"
  /\ text \in TextsOf({ "a.ts", "b.ts", "not-a.ts", ".env", "m.ts", "bun.lockb" }, MaxWords)
  /\ world \in Worlds
  /\ ExtractFresh
  /\ lastIndex = 0
  /\ earlier = << >>
  /\ VerifyUnused
  /\ IgnoreUnused
  /\ SplitUnused
  /\ PipelineUnused
  /\ CliUnused

SpecFuzzy == InitFuzzy /\ [][Next]_vars

(***************************************************************************)
(* SpecAgain: two calls of extractPaths, one after the other, on the same  *)
(* text and the same tree, each with any options.                          *)
(***************************************************************************)
InitAgain ==
  /\ pc = "idle"
  /\ text \in TextsOf({ "src/a.ts", "a.ts" }, MaxWords)
  /\ world \in { w \in Worlds : w.files = {"/w/a.ts"} }
  /\ ExtractFresh
  /\ lastIndex = 0
  /\ earlier = << >>
  /\ VerifyUnused
  /\ IgnoreUnused
  /\ SplitUnused
  /\ PipelineUnused
  /\ CliUnused

\* the first call has returned and the caller calls again: the locals of the
\* first call are gone, the module's PATH_REGEX is the same object
CallAgain ==
  /\ pc = "returned"
  /\ earlier = << >>
  /\ earlier' = << [opts |-> opts, value |-> resolvedPaths] >>
  /\ opts' = CHOOSE o \in OptionsSet : o.given = {}
  /\ regexPaths' = << >>
  /\ allFilePaths' = << >>
  /\ fuzzyPaths' = << >>
  /\ combinedPaths' = << >>
  /\ uniquePaths' = << >>
  /\ resolvedPaths' = << >>
  /\ dirsRead' = {}
  /\ pc' = "idle"
  /\ UNCHANGED << text, world, lastIndex, verifyVars, ignoreVars, splitVars, pipelineVars,
                  cliVars >>

SpecAgain == InitAgain /\ [][ExtractPaths \/ CallAgain]_vars

(***************************************************************************)
(* SpecPattern: one call of extractPaths on a text of paths and of strings *)
(* that are not paths, in a tree of at most one file.                      *)
(***************************************************************************)
\* the words: a path followed by a line number and a comma, words that hold
\* no separator and no dot, a version number, and a hash, a UUID and an
\* e-mail address, bare or left by the cleanup of a match that went on
\* after a "?"
InitPattern ==
  /\ pc = "idle"
  /\ text \in TextsOf({ "src/a.ts:5,", "hello", "README", "a:b", "v3.4.5", "abcdef1?x/y",
                         "a1b2c3d4-e5f6-7890-abcd-ef1234567890?x/y", "u@d.com?x/y",
                         "u@d.com", "a/b/c.com" }, MaxWords)
  /\ world \in { w \in Worlds : Cardinality(w.files) <= 1 }
  /\ ExtractFresh
  /\ lastIndex = 0
  /\ earlier = << >>
  /\ VerifyUnused
  /\ IgnoreUnused
  /\ SplitUnused
  /\ PipelineUnused
  /\ CliUnused

SpecPattern == InitPattern /\ [][Next]_vars

(***************************************************************************)
(* SpecShape: one call of extractPaths on a text of relative references,   *)
(* of paths that start with two slashes or hold doubled backslashes, of    *)
(* paths that run over lines and of very long paths, in an empty tree.     *)
(***************************************************************************)
\* the words: "./" and "../" references with and without an extension, of
\* three segments and of more; double-slash paths with an extension, of two
\* segments and of three; a UNC path and a path with an escaped backslash;
\* the other texts: two paths in quotes over two lines, two lines, a first
\* half of MaxPathLength characters followed by a second half, and a path
\* of MaxPathLength + 1 characters
InitShape ==
  /\ pc = "idle"
  /\ text \in TextsOf({ "./x", "../x", "./a/b", "./a/b/c", "./README.md",
                         "../../../../../etc/passwd",
                         "//server/file.txt", "//another/share", "//a/b/c",
                         "\\\\srv\\\\share\\f.txt", "a\\\\b\\c.ts" }, MaxWords)
              \cup { "\"a/b.ts\nc/d.ts\"", "a/b\nc/d.ts",
                     "(src/abcdefghijabcdefghijabcdefghijabcdefghijabcdefghijabcdefghijabcdefghijabcdefghijabcdefghijabcdefghijabcdefghijabcdefghijabcdefghijabcdefghijabcdefghijabcdefghijabcdefghijabcdefghijabcdefghijabcde b/n).ts",
                     "src/abcdefghijabcdefghijabcdefghijabcdefghijabcdefghijabcdefghijabcdefghijabcdefghijabcdefghijabcdefghijabcdefghijabcdefghijabcdefghijabcdefghijabcdefghijabcdefghijabcdefghijabcdefghijabcdefghijabcdefg" }
  /\ world \in { w \in Worlds : w.files = {} }
  /\ ExtractFresh
  /\ lastIndex = 0
  /\ earlier = << >>
  /\ VerifyUnused
  /\ IgnoreUnused
  /\ SplitUnused
  /\ PipelineUnused
  /\ CliUnused

SpecShape == InitShape /\ [][Next]_vars

(***************************************************************************)
(* SpecVerify: one call of verifyPaths on any list, cwd and filesystem.    *)
(***************************************************************************)
InitVerify ==
  /\ pc = "idle"
  /\ paths \in UNION { [1..n -> {"a.ts", "/w/a.ts", "lib/b.ts"}] : n \in 0..MaxPaths }
  /\ baseDir \in Cwds
  /\ fsMap \in { AccessMap("ok", "ok", "ok", "ok"),
                 AccessMap("ENOENT", "ENOENT", "ENOENT", "ENOENT"),
                 AccessMap("ok", "ENOENT", "EACCES", "ok"),
                 AccessMap("ENOENT", "ok", "ok", "EIO"),
                 AccessMap("EACCES", "ok", "ENOENT", "ENOENT"),
                 AccessMap("EIO", "EACCES", "ok", "ok") }
  /\ VerifyFresh
  /\ ExtractUnused
  /\ IgnoreUnused
  /\ SplitUnused
  /\ PipelineUnused
  /\ CliUnused

\* the call: paths.map runs every async callback up to its await, so every
\* fs.access is started, in list order, before anything settles
VerifyPaths ==
  /\ pc = "idle"
  /\ outcomes' = [i \in 1..Len(paths) |-> "pending"]
  /\ checks' = [i \in 1..Len(paths) |-> "pending"]
  /\ pc' = "probing"
  /\ UNCHANGED << paths, baseDir, fsMap, settleOrder, existenceChecks, existingPaths,
                  extractVars, ignoreVars, splitVars, pipelineVars, cliVars >>

\* one fs.access ends, and the callback it was awaited in runs to its return
AccessSettles ==
  /\ pc = "probing"
  /\ \E i \in 1..Len(paths) :
       /\ outcomes[i] = "pending"
       /\ LET outcome == fsAccess(fsMap, absolutePath(paths[i], baseDir))
          IN /\ outcomes' = [outcomes EXCEPT ![i] = outcome]
             /\ checks' = [checks EXCEPT ![i] = CheckSettles(outcome)]
       /\ settleOrder' = Append(settleOrder, i)
  /\ UNCHANGED << pc, paths, baseDir, fsMap, existenceChecks, existingPaths,
                  extractVars, ignoreVars, splitVars, pipelineVars, cliVars >>

\* every promise of checks has settled: Promise.all settles, and the filter
\* and the return follow (a rejected check would reject the whole call)
Gather ==
  /\ pc = "probing"
  /\ \A i \in 1..Len(paths) : checks[i] # "pending"
  /\ IF \E i \in 1..Len(paths) : checks[i] = "rejected"
     THEN /\ pc' = "rejected"
          /\ UNCHANGED << existenceChecks, existingPaths >>
     ELSE /\ pc' = "returned"
          /\ existenceChecks' = PromiseAll(checks, settleOrder)
          /\ existingPaths' = FilterExisting(paths, PromiseAll(checks, settleOrder))
  /\ UNCHANGED << paths, baseDir, fsMap, outcomes, checks, settleOrder,
                  extractVars, ignoreVars, splitVars, pipelineVars, cliVars >>

SpecVerify == InitVerify /\ [][VerifyPaths \/ AccessSettles \/ Gather]_vars

(***************************************************************************)
(* SpecIgnore: one call of isIgnored on any path.                          *)
(***************************************************************************)
InitIgnore ==
  /\ pc = "idle"
  /\ candidate \in IgnorePathsOf(MaxSegments)
  /\ ignored = FALSE
  /\ ExtractUnused
  /\ VerifyUnused
  /\ SplitUnused
  /\ PipelineUnused
  /\ CliUnused

IsIgnored ==
  /\ pc = "idle"
  /\ ignored' = isIgnored(candidate)
  /\ pc' = "returned"
  /\ UNCHANGED << candidate, extractVars, verifyVars, splitVars, pipelineVars, cliVars >>

SpecIgnore == InitIgnore /\ [][IsIgnored]_vars

(***************************************************************************)
(* SpecSplit: one call of fixSplitPaths on any list of candidates: halves  *)
(* of a path cut at a space inside parentheses, with the variant words     *)
(* "new", "old" and "v2", paths that are whole, and a string that can be   *)
(* either half.                                                            *)
(***************************************************************************)
InitSplit ==
  /\ pc = "idle"
  /\ splitPaths \in UNION { [1..n -> { "(src/Button", "new).tsx", "old).tsx", "v2).ts",
                                       "src/a.ts", "lib(", "(a).ts" }] :
                            n \in 0..MaxSplitPaths }
  /\ fixedPaths = << >>
  /\ ExtractUnused
  /\ VerifyUnused
  /\ IgnoreUnused
  /\ PipelineUnused
  /\ CliUnused

FixSplitPaths ==
  /\ pc = "idle"
  /\ fixedPaths' = fixSplitPaths(splitPaths)
  /\ pc' = "returned"
  /\ UNCHANGED << splitPaths, extractVars, verifyVars, ignoreVars, pipelineVars, cliVars >>

SpecSplit == InitSplit /\ [][FixSplitPaths]_vars

(***************************************************************************)
(* SpecPipeline: one call of runPipeline on any text, filesystem and       *)
(* options, stage by stage.                                                *)
(***************************************************************************)
InitPipeline ==
  /\ pc = "idle"
  /\ text \in TextsOf({ "src/a.ts", "a.ts", "m.ts" }, MaxWords)
  /\ world \in Worlds
  /\ ExtractFresh
  /\ lastIndex = 0
  /\ earlier = << >>
  /\ VerifyUnused
  /\ IgnoreUnused
  /\ SplitUnused
  /\ PipelineUnused
  /\ CliUnused

\* const initialPaths = await extractPaths(text, { unique: true, ...extractOptions })
PipelineExtract ==
  /\ pc = "idle"
  /\ CallsOn(PipelineOptionsSet, extractPathsWithRegexFrom(text, lastIndex))
  /\ pc' = "extracted"
  /\ UNCHANGED << text, world, earlier, verifyVars, ignoreVars, splitVars, pipelineVars, cliVars >>

\* const verifiedPaths = shouldVerify ? await verifyPaths(initialPaths, cwd) : initialPaths
PipelineVerify ==
  /\ pc = "extracted"
  /\ verifiedPaths' = IF ShouldVerify(opts)
                      THEN verifyPathsIn(world, resolvedPaths, OptionOr(opts, "cwd", ProcessCwd))
                      ELSE resolvedPaths
  /\ pc' = "verified"
  /\ UNCHANGED << formattedOutput, rejection, extractVars, verifyVars, ignoreVars,
                  splitVars, cliVars >>

\* const formattedOutput = createFormatter(formatType, pretty)(verifiedPaths)
\* (an error thrown by createFormatter rejects the promise runPipeline returned)
PipelineFormat ==
  /\ pc = "verified"
  /\ LET formatType == OptionOr(opts, "format", "json")
     IN IF KnownFormat(formatType)
        THEN /\ formattedOutput' = createFormatter(formatType, OptionOr(opts, "pretty", TRUE),
                                                   verifiedPaths)
             /\ pc' = "formatted"
             /\ UNCHANGED rejection
        ELSE /\ rejection' = "Unknown format: " \o formatType
             /\ pc' = "rejected"
             /\ UNCHANGED formattedOutput
  /\ UNCHANGED << verifiedPaths, extractVars, verifyVars, ignoreVars, splitVars, cliVars >>

NextPipeline == PipelineExtract \/ PipelineVerify \/ PipelineFormat

SpecPipeline == InitPipeline /\ [][NextPipeline]_vars

(***************************************************************************)
(* SpecDotDot: one call of runPipeline on a text of paths, relative and    *)
(* absolute, that go through a directory and back out of it with "..", in  *)
(* a tree that does not hold that directory.                               *)
(***************************************************************************)
InitDotDot ==
  /\ pc = "idle"
  /\ text \in TextsOf({ "/w/x/../a.ts", "x/../a.ts", "/w/a.ts", "a.ts" }, MaxWords)
  /\ world \in { w \in Worlds : w.files \in { {}, {"/w/a.ts"} } }
  /\ ExtractFresh
  /\ lastIndex = 0
  /\ earlier = << >>
  /\ VerifyUnused
  /\ IgnoreUnused
  /\ SplitUnused
  /\ PipelineUnused
  /\ CliUnused

SpecDotDot == InitDotDot /\ [][NextPipeline]_vars

(***************************************************************************)
(* SpecCli: one run of the command line, on an input that can be read,     *)
(* without --help, --version and the test hook __INTERNAL_TEST_COPY, from  *)
(* the parsed arguments to the exit.                                       *)
(***************************************************************************)
\* args: given holds the boolean flags the command line named (mri leaves a
\* boolean flag that was not named undefined); positional is args._
InitCli ==
  /\ pc = "idle"
  /\ text \in TextsOf({ "a.ts" }, MaxWords)
  /\ world \in { w \in Worlds : w.files \in { {}, {"/w/a.ts"} } /\ w.order = "forward" }
  /\ cliArgs \in { a \in [ given : SUBSET {"copy", "__INTERNAL_STDIN_IS_TTY",
                                           "__INTERNAL_STDOUT_IS_TTY"},
                           copy : BOOLEAN,
                           __INTERNAL_STDIN_IS_TTY : BOOLEAN,
                           __INTERNAL_STDOUT_IS_TTY : BOOLEAN,
                           positional : {<< >>, << "in.log" >>},
                           strategy : {"regex", "fuzzy"},
                           verify : BOOLEAN,
                           format : {"json", "yaml", "list", "xml"} ] :
                      \A k \in {"copy", "__INTERNAL_STDIN_IS_TTY",
                                 "__INTERNAL_STDOUT_IS_TTY"} : k \notin a.given => ~a[k] }
  /\ isTTY \in [stdin : BOOLEAN, stdout : BOOLEAN]
  /\ wantsCopy = FALSE
  /\ stdout = << >>
  /\ stderr = << >>
  /\ clipboard = << >>
  /\ ExtractFresh
  /\ lastIndex = 0
  /\ earlier = << >>
  /\ VerifyUnused
  /\ IgnoreUnused
  /\ SplitUnused
  /\ PipelineUnused

\* const wantsCopy = args.copy === true || (args.copy !== false && isPipedInput && isStdoutTty)
\* (isTTY is true or undefined: FALSE stands for undefined)
WantsCopy(a, tty) ==
  LET inputFile == a.positional
      isStdoutTty == OptionOr(a, "__INTERNAL_STDOUT_IS_TTY", tty.stdout)
      isStdinTty == OptionOr(a, "__INTERNAL_STDIN_IS_TTY", tty.stdin)
      isPipedInput == inputFile = << >> /\ ~isStdinTty
  IN ("copy" \in a.given /\ a.copy)
     \/ (~("copy" \in a.given /\ ~a.copy) /\ isPipedInput /\ isStdoutTty)

\* run, up to the first stage of runPipeline(inputText, options): the copy is
\* decided, the input is read, the options are built
CliRun ==
  /\ pc = "idle"
  /\ wantsCopy' = WantsCopy(cliArgs, isTTY)
  /\ CallsOn({ [given |-> {"strategy", "verify", "format", "pretty"},
                strategy |-> cliArgs.strategy, absolute |-> FALSE, cwd |-> ProcessCwd,
                verify |-> cliArgs.verify, format |-> cliArgs.format, pretty |-> TRUE] },
             extractPathsWithRegexFrom(text, lastIndex))
  /\ pc' = "extracted"
  /\ UNCHANGED << text, world, earlier, verifyVars, ignoreVars, splitVars, pipelineVars,
                  cliArgs, isTTY, stdout, stderr, clipboard >>

\* console.log(result)
CliPrint ==
  /\ pc = "formatted"
  /\ stdout' = Append(stdout, formattedOutput \o "\n")
  /\ pc' = "printed"
  /\ UNCHANGED << extractVars, verifyVars, ignoreVars, splitVars, pipelineVars,
                  cliArgs, isTTY, wantsCopy, stderr, clipboard >>

\* if (wantsCopy) await copyToClipboard(result), and the end of run
CliCopy ==
  /\ pc = "printed"
  /\ clipboard' = IF wantsCopy THEN Append(clipboard, formattedOutput) ELSE clipboard
  /\ pc' = "exited"
  /\ UNCHANGED << extractVars, verifyVars, ignoreVars, splitVars, pipelineVars,
                  cliArgs, isTTY, wantsCopy, stdout, stderr >>

\* run().catch: the message goes to the standard error and the process exits with 1
CliFail ==
  /\ pc = "rejected"
  /\ stderr' = Append(stderr, "Error: " \o rejection \o "\n")
  /\ pc' = "failed"
  /\ UNCHANGED << extractVars, verifyVars, ignoreVars, splitVars, pipelineVars,
                  cliArgs, isTTY, wantsCopy, stdout, clipboard >>

SpecCli ==
  InitCli /\ [][CliRun \/ PipelineVerify \/ PipelineFormat \/ CliPrint \/ CliCopy \/ CliFail]_vars

(***************************************************************************)
(* Properties of verifyPaths, under SpecVerify.                            *)
(***************************************************************************)
\* C1: whatever the order the probes end in, the returned list is made of
\* exactly the entries whose probe succeeded, each at the rank it has among
\* them in the input (same order, same multiplicity, nothing added); the
\* empty list gives the empty list.
C1_StableFilter ==
  pc = "returned" =>
    LET kept == { i \in 1..Len(paths) : outcomes[i] = "ok" }
    IN /\ Len(existingPaths) = Cardinality(kept)
       /\ \A i \in kept :
            existingPaths[Cardinality({ j \in kept : j <= i })] = paths[i]
       /\ (paths = << >> => existingPaths = << >>)

\* a list with a repeated entry, probes ending last to first, one probe failing
C1_Witness ==
  /\ pc = "returned"
  /\ paths = << "a.ts", "lib/b.ts", "a.ts" >>
  /\ settleOrder = << 3, 2, 1 >>
  /\ outcomes = << "ok", "EACCES", "ok" >>
  /\ existingPaths = << "a.ts", "a.ts" >>

\* C2: a probe that fails, with whatever error, never makes a check or the
\* call reject; in what is returned the failed entry is left out and every
\* entry whose probe succeeded is kept; no entry is probed twice.
C2_ErrorsOnlyExclude ==
  /\ pc # "rejected"
  /\ \A i \in 1..Len(checks) : checks[i] # "rejected"
  /\ \A j, k \in 1..Len(settleOrder) : j # k => settleOrder[j] # settleOrder[k]
  /\ pc = "returned" =>
       /\ \A i \in 1..Len(paths) : existenceChecks[i] <=> outcomes[i] = "ok"
       /\ Len(existingPaths) = Cardinality({ i \in 1..Len(paths) : outcomes[i] = "ok" })

\* a permission error and an I/O error next to a probe that succeeds
C2_Witness ==
  /\ pc = "returned"
  /\ outcomes = << "EACCES", "EIO", "ok" >>
  /\ paths = << "a.ts", "/w/a.ts", "lib/b.ts" >>
  /\ existingPaths = << "lib/b.ts" >>

\* C3: an entry is kept exactly when the probe finds something at the entry
\* itself if it is absolute, at cwd joined with the entry otherwise; what is
\* kept is the entry as it was given.
C3_KeepsWhatResolves ==
  pc = "returned" =>
    existingPaths =
      SelectSeq(paths,
                LAMBDA p : fsMap[Locate(IF isAbsolute(p) THEN p ELSE join(baseDir, p))] = "ok")

\* a relative entry found under cwd, not under the process's directory, next
\* to an absolute entry that is not found
C3_Witness ==
  /\ pc = "returned"
  /\ baseDir = "p"
  /\ paths = << "a.ts", "/w/a.ts" >>
  /\ fsMap["/w/a.ts"] = "ENOENT"
  /\ existingPaths = << "a.ts" >>

(***************************************************************************)
(* Properties of extractPaths, under Spec.                                 *)
(***************************************************************************)
\* C4: when unique is set, the returned list holds no string twice, whatever
\* the text, the strategy, the filesystem and the value of absolute.
C4_NoDuplicates ==
  pc = "returned" /\ OptionOr(opts, "unique", TRUE) =>
    \A j, k \in 1..Len(resolvedPaths) : j # k => resolvedPaths[j] # resolvedPaths[k]

\* C5: when absolute is set, the returned list has one entry per entry of the
\* list before it, each absolute and equal to that entry's location against
\* cwd (the entry itself, normalized, when it is absolute already).
C5_AbsoluteAgainstCwd ==
  pc = "returned" /\ OptionOr(opts, "absolute", FALSE) =>
    LET dir == OptionOr(opts, "cwd", ProcessCwd)
        base == IF isAbsolute(dir) THEN dir ELSE join(ProcessCwd, dir)
    IN /\ Len(resolvedPaths) = Len(uniquePaths)
       /\ \A k \in 1..Len(uniquePaths) :
            /\ isAbsolute(resolvedPaths[k])
            /\ resolvedPaths[k] =
                 IF isAbsolute(uniquePaths[k]) THEN normalize(uniquePaths[k])
                 ELSE join(base, uniquePaths[k])

\* a relative and an absolute entry, resolved against a relative cwd
C5_Witness ==
  /\ pc = "returned"
  /\ OptionOr(opts, "absolute", FALSE)
  /\ OptionOr(opts, "cwd", ProcessCwd) = "p"
  /\ uniquePaths = << "src/a.ts", "/w/a.ts" >>
  /\ resolvedPaths = << "/w/p/src/a.ts", "/w/a.ts" >>

\* C6: no returned string is empty, before absolutization or after it.
C6_NonEmpty ==
  pc = "returned" =>
    /\ \A k \in 1..Len(uniquePaths) : Len(uniquePaths[k]) > 0
    /\ \A k \in 1..Len(resolvedPaths) : Len(resolvedPaths[k]) > 0

\* a URL without a path, which the cleanup empties, next to a path that stays
C6_Witness ==
  /\ pc = "returned"
  /\ text = "http://h src/a.ts"
  /\ OptionOr(opts, "strategy", "fuzzy") = "regex"
  /\ ~OptionOr(opts, "absolute", FALSE)
  /\ resolvedPaths = << "src/a.ts" >>

\* C7: nothing either extractor returns has a segment (between '/' or '\')
\* that is an ignored directory name, or a last segment that is an ignored
\* file name.
C7_NoIgnoredReturned ==
  pc = "returned" =>
    \A p \in Range(regexPaths) \cup Range(fuzzyPaths) :
      LET segs == Split(p, {"/", "\\"})
      IN /\ \A k \in 1..Len(segs) : segs[k] \notin DEFAULT_IGNORE_DIRS
         /\ segs[Len(segs)] \notin DEFAULT_IGNORE_FILES

C10_InvalidStrategyFails ==
  ~(pc = "returned" /\ OptionOr(opts, "strategy", "fuzzy") \notin ValidStrategies)

C8_IgnoredIffSegment ==
  pc = "returned" =>
    LET segs == Split(candidate, {"/", "\\"})
    IN ignored <=> \/ \E k \in 1..Len(segs) : segs[k] \in DEFAULT_IGNORE_DIRS
                   \/ segs[Len(segs)] \in DEFAULT_IGNORE_FILES

(***************************************************************************)
(* Properties of the fuzzy branch, under SpecFuzzy.                        *)
(***************************************************************************)
\* C12: with strategy fuzzy and absolute off, every returned string is the
\* path, relative to the cwd option, of a file of the tree that lies under
\* that directory behind directories that can be listed, that is not ignored
\* and whose basename occurs in the text; no string is returned twice.
C12_FuzzySound ==
  pc = "returned" /\ OptionOr(opts, "strategy", "fuzzy") = "fuzzy"
    /\ ~OptionOr(opts, "absolute", FALSE) =>
    LET cwd == OptionOr(opts, "cwd", ProcessCwd)
        depth == Len(AbsSegs(Locate(cwd)))
    IN \A k \in 1..Len(resolvedPaths) :
         /\ \E f \in world.files :
              /\ Len(AbsSegs(f)) > depth
              /\ Ancestor(f, depth) = Locate(cwd)
              /\ \A n \in depth..(Len(AbsSegs(f)) - 1) : Ancestor(f, n) \notin world.noRead
              /\ resolvedPaths[k] = relative(cwd, f)
              /\ ~isIgnored(resolvedPaths[k])
              /\ Includes(text, basename(f))
         /\ \A j \in 1..Len(resolvedPaths) : j # k => resolvedPaths[j] # resolvedPaths[k]

C12_Witness ==
  /\ pc = "returned"
  /\ opts.given # {} /\ opts.strategy = "fuzzy" /\ ~opts.absolute /\ opts.cwd = ProcessCwd
  /\ world.files = {"/w/src/a.ts", "/w/src/b.ts"}
  /\ text = "a.ts m.ts"
  /\ resolvedPaths = << "src/a.ts" >>

\* C13: the fuzzy branch returns a file only when its basename is a whole
\* whitespace-delimited token of the text, never when the basename occurs
\* only inside a longer token.
C13_NoPartialMatches ==
  pc = "returned" =>
    \A k \in 1..Len(fuzzyPaths) :
      basename(fuzzyPaths[k]) \in Range(Split(text, {" "}))

\* C14: the fuzzy branch returns every file below the cwd option, behind
\* directories that can be listed and not ignored, whose basename stands in
\* the text between characters that are not identifier characters (or the
\* text's ends), whatever the basename's first character.
C14_FuzzyComplete ==
  pc = "returned" /\ OptionOr(opts, "strategy", "fuzzy") \in {"fuzzy", "both"} =>
    LET cwd == OptionOr(opts, "cwd", ProcessCwd)
        depth == Len(AbsSegs(Locate(cwd)))
    IN \A f \in world.files :
         (/\ Len(AbsSegs(f)) > depth
          /\ Ancestor(f, depth) = Locate(cwd)
          /\ \A n \in depth..(Len(AbsSegs(f)) - 1) : Ancestor(f, n) \notin world.noRead
          /\ ~isIgnored(relative(cwd, f))
          /\ \E i \in 1..(Len(text) - Len(basename(f)) + 1) :
               /\ SubSeq(text, i, i + Len(basename(f)) - 1) = basename(f)
               /\ (i = 1 \/ Ch(text, i - 1) \notin WordCh)
               /\ (i + Len(basename(f)) > Len(text)
                   \/ Ch(text, i + Len(basename(f))) \notin WordCh))
         => relative(cwd, f) \in Range(fuzzyPaths)

\* C15: a directory whose listing fails does not fail the call: the walk
\* yields exactly the files below the cwd option that lie behind directories
\* that can be listed, each once; nothing from a directory that cannot be
\* listed, everything from the others.
C15_WalkSurvivesReadErrors ==
  /\ pc \in {"idle", "returned"}
  /\ pc = "returned" /\ OptionOr(opts, "strategy", "fuzzy") \in {"fuzzy", "both"} =>
       LET cwd == OptionOr(opts, "cwd", ProcessCwd)
           depth == Len(AbsSegs(Locate(cwd)))
       IN /\ { Locate(allFilePaths[k]) : k \in 1..Len(allFilePaths) }
              = { f \in world.files :
                    /\ Len(AbsSegs(f)) > depth
                    /\ Ancestor(f, depth) = Locate(cwd)
                    /\ \A n \in depth..(Len(AbsSegs(f)) - 1) :
                         Ancestor(f, n) \notin world.noRead }
          /\ \A j, k \in 1..Len(allFilePaths) :
               j # k => allFilePaths[j] # allFilePaths[k]

C15_Witness ==
  /\ pc = "returned"
  /\ opts.given # {} /\ opts.strategy = "fuzzy" /\ opts.cwd = ProcessCwd
  /\ world.files = {"/w/a.ts", "/w/p/a.ts", "/w/p/lib/b.ts"}
  /\ world.noRead = {"/w/p/lib"}
  /\ "/w/p/lib" \in dirsRead
  /\ Range(allFilePaths) = {"/w/a.ts", "/w/p/a.ts"}
  /\ text = "a.ts b.ts"
  /\ Range(resolvedPaths) = {"a.ts", "p/a.ts"}

(***************************************************************************)
(* Properties of the pattern branch.                                       *)
(***************************************************************************)
\* C16: the cleanup chain changes no string the pattern extractor returns.
C16_CleanupIdempotent ==
  pc = "returned" =>
    \A k \in 1..Len(regexPaths) : CleanPath(regexPaths[k]) = regexPaths[k]

(***************************************************************************)
(* Properties of the pattern branch, under SpecPattern.                    *)
(***************************************************************************)
\* C18: for a text that holds no "/", no "\" and no ".", and none of the
\* names Dockerfile, Makefile, Jenkinsfile, Vagrantfile, the pattern branch
\* returns the empty list.
C18_NothingWithoutSeparator ==
  (/\ pc = "returned"
   /\ opts.given # {} /\ opts.strategy \in {"regex", "both"}
   /\ \A c \in {"/", "\\", ".", "Dockerfile", "Makefile", "Jenkinsfile", "Vagrantfile"} :
        ~Includes(text, c))
  => regexPaths = << >>

C18_Witness ==
  /\ pc = "returned"
  /\ opts.given # {} /\ opts.strategy = "regex"
  /\ text = "hello README"
  /\ resolvedPaths = << >>

\* C19: no string the pattern branch returns is, as a whole, a version
\* number, a UUID, a hexadecimal hash of 7 to 40 digits or an e-mail address.
C19_NoVersionUuidHashEmail ==
  pc = "returned" =>
    \A k \in 1..Len(regexPaths) :
      /\ ~Test(versionPattern, regexPaths[k])
      /\ ~Test(uuidPattern, regexPaths[k])
      /\ ~Test(hashPattern, regexPaths[k])
      /\ ~Test(emailPattern, regexPaths[k])

\* an e-mail address left by the cleanup is dropped, the path next to it is kept
C19_Witness ==
  /\ pc = "returned"
  /\ opts.given # {} /\ opts.strategy = "regex"
  /\ text = "u@d.com?x/y a/b/c.com"
  /\ regexPaths = << "a/b/c.com" >>

(***************************************************************************)
(* Properties of fixSplitPaths, under SpecSplit.                           *)
(***************************************************************************)
\* C17: the halves "(P" and "v).ext" of a path are put back together as
\* "P (v).ext", whatever the variant word v.
C17_VariantRestored ==
  pc = "returned" =>
    \A v \in {"new", "old"} :
      splitPaths = << "(src/Button", v \o ").tsx" >>
        => fixedPaths = << "src/Button (" \o v \o ").tsx" >>

(***************************************************************************)
(* Properties of runPipeline, under SpecPipeline.                          *)
(***************************************************************************)
\* C20: the stages run in the order extract, verify, format; unless verify
\* is given as false, the paths that reach the formatter are the extracted
\* paths that exist when resolved against the cwd option, in extraction
\* order; with verify false they are all the extracted paths; the output
\* lists exactly them.
C20_VerifiesByDefault ==
  LET cwd == OptionOr(opts, "cwd", ProcessCwd)
      exists == [i \in 1..Len(resolvedPaths) |->
                   Locate(IF isAbsolute(resolvedPaths[i]) THEN resolvedPaths[i]
                          ELSE resolve(cwd, resolvedPaths[i]))
                     \in world.files \cup DirsOf(world.files)]
      kept == IF "verify" \in opts.given /\ ~opts.verify THEN resolvedPaths
              ELSE SelectSeqIdx(resolvedPaths, exists, 1)
      quoted == [i \in 1..Len(kept) |-> DQ \o kept[i] \o DQ]
  IN /\ pc \in {"idle", "extracted", "verified", "formatted"}
     /\ pc = "idle" => resolvedPaths = << >>
     /\ pc \in {"idle", "extracted"} => verifiedPaths = << >>
     /\ pc \in {"idle", "extracted", "verified"} => formattedOutput = ""
     /\ pc \in {"verified", "formatted"} => verifiedPaths = kept
     /\ pc = "formatted" =>
          formattedOutput =
            IF OptionOr(opts, "format", "json") = "list" THEN Join(kept, "\n")
            ELSE IF kept = << >> THEN "[]"
            ELSE IF OptionOr(opts, "pretty", TRUE)
                 THEN "[\n  " \o Join(quoted, ",\n  ") \o "\n]"
                 ELSE "[" \o Join(quoted, ",") \o "]"

\* verify not given: of two extracted paths, the one that exists is listed
C20_Witness ==
  /\ pc = "formatted"
  /\ opts.given = {"strategy", "absolute", "cwd", "format", "pretty"}
  /\ opts.strategy = "regex" /\ opts.format = "list"
  /\ opts.cwd = ProcessCwd /\ ~opts.absolute
  /\ world.files = {"/w/a.ts"}
  /\ text = "src/a.ts a.ts"
  /\ resolvedPaths = << "src/a.ts", "a.ts" >>
  /\ formattedOutput = "a.ts"

(***************************************************************************)
(* C21. The clipboard decision of the command line: with --copy the output *)
(* is copied, with --no-copy it is not, and with neither flag it is copied *)
(* whenever the input is piped (no file argument, and a standard input     *)
(* that is not a terminal); nothing is copied before the result is         *)
(* printed.                                                                *)
(***************************************************************************)
C21_CopiesPipedInput ==
  LET forced == "copy" \in cliArgs.given /\ cliArgs.copy
      disabled == "copy" \in cliArgs.given /\ ~cliArgs.copy
      piped == /\ cliArgs.positional = << >>
               /\ ~OptionOr(cliArgs, "__INTERNAL_STDIN_IS_TTY", isTTY.stdin)
  IN /\ clipboard # << >> => stdout = << formattedOutput \o "\n" >>
     /\ pc = "exited" =>
          /\ forced => clipboard = << formattedOutput >>
          /\ disabled => clipboard = << >>
          /\ (~forced /\ ~disabled /\ piped) => clipboard = << formattedOutput >>

(***************************************************************************)
(* C22. createFormatter with a format other than json, yaml and list       *)
(* throws 'Unknown format: <format>' when it is created and no formatter   *)
(* comes back, so nothing is formatted; with one of the three formats it   *)
(* does not throw and the formatter it returns is applied.                 *)
(***************************************************************************)
C22_UnknownFormatThrows ==
  pc \in {"formatted", "rejected", "printed", "exited", "failed"} =>
    IF opts.format \in {"json", "yaml", "list"}
    THEN /\ rejection = ""
         /\ pc \notin {"rejected", "failed"}
         /\ formattedOutput = createFormatter(opts.format, opts.pretty, verifiedPaths)
    ELSE /\ rejection = "Unknown format: " \o opts.format
         /\ pc \in {"rejected", "failed"}
         /\ formattedOutput = ""
         /\ stdout = << >>

C22_Witness ==
  /\ pc = "rejected"
  /\ opts.format = "xml"
  /\ rejection = "Unknown format: xml"

C24_ClosesWithExt(str) ==
  \E p \in 1..Len(str), q \in 1..Len(str) :
    /\ p < q /\ q < Len(str)
    /\ Ch(str, p) = ")" /\ Ch(str, q) = "."
    /\ \A r \in (q + 1)..Len(str) : Ch(str, r) \in AlNum

C24_Pair(in) ==
  /\ Len(in) >= 2
  /\ Ch(in[1], 1) = "(" \/ Ch(in[1], Len(in[1])) = "("
  /\ C24_ClosesWithExt(in[2])

\* the number of merges of a left-to-right scan
RECURSIVE C24_Merges(_)
C24_Merges(in) ==
  IF in = << >> THEN 0
  ELSE IF C24_Pair(in) THEN 1 + C24_Merges(Tail(Tail(in)))
  ELSE C24_Merges(Tail(in))

\* out is what a left-to-right scan of in emits: one string that holds both
\* halves for a pair, the element itself otherwise
RECURSIVE C24_Scan(_, _)
C24_Scan(in, out) ==
  IF in = << >> THEN out = << >>
  ELSE /\ out # << >>
       /\ IF C24_Pair(in)
          THEN /\ \E lead \in {"", "("} : StartsWith(lead \o Head(out), in[1] \o " ")
               /\ Len(Head(out)) >= Len(in[1]) + Len(in[2])
               /\ C24_Scan(Tail(Tail(in)), Tail(out))
          ELSE /\ Head(out) = in[1]
               /\ C24_Scan(Tail(in), Tail(out))

C24_MergesAdjacentPairs ==
  pc = "returned" =>
    /\ C24_Scan(splitPaths, fixedPaths)
    /\ Len(fixedPaths) = Len(splitPaths) - C24_Merges(splitPaths)

\* the second element is consumed by the first merge: it is not merged with the third
C24_Witness ==
  /\ pc = "returned"
  /\ splitPaths = << "(src/Button", "(a).ts", "new).tsx" >>
  /\ fixedPaths = << "src/Button (a).ts", "new).tsx" >>

(***************************************************************************)
(* C25. The pattern extractor returns no string that begins with "./" or   *)
(* "../", holds no space, does not end in an extension of 1 to 5 letters   *)
(* and digits and has at most 3 segments between slashes; "./README.md"    *)
(* and "../../../../../etc/passwd" are returned.                           *)
(***************************************************************************)
\* a final "." followed by 1 to 5 letters and digits
C25_EndsInExtension(p) ==
  \E n \in 1..5 :
    /\ Len(p) > n
    /\ Ch(p, Len(p) - n) = "."
    /\ \A r \in (Len(p) - n + 1)..Len(p) : Ch(p, r) \in AlNum

C25_NoModuleReferences ==
  pc = "returned" /\ OptionOr(opts, "strategy", "fuzzy") = "regex" =>
    /\ \A k \in 1..Len(regexPaths) :
         LET p == regexPaths[k]
         IN ~ /\ SubSeq(p, 1, 2) = "./" \/ SubSeq(p, 1, 3) = "../"
              /\ \A i \in 1..Len(p) : Ch(p, i) # " "
              /\ ~C25_EndsInExtension(p)
              /\ Cardinality({ i \in 1..Len(p) : Ch(p, i) = "/" }) + 1 <= 3
    /\ text \in {"./README.md", "../../../../../etc/passwd"} => regexPaths = << text >>

\* of two references without extension, the one of three segments is dropped
\* and the one of four is returned
C25_Witness ==
  /\ pc = "returned"
  /\ text = "./a/b ./a/b/c"
  /\ regexPaths = << "./a/b/c" >>

(***************************************************************************)
(* C26. A candidate that starts with "//" once its locator, query and      *)
(* wrapping are gone loses exactly one leading slash when it ends in an    *)
(* extension of 1 to 5 letters and digits or has more than two non-empty   *)
(* segments, and is left as it is otherwise; a candidate that starts with  *)
(* two backslashes keeps them and keeps its doubled backslashes.  (The      *)
(* candidates looked at are those of the texts of at most MaxPathLength    *)
(* characters.)                                                            *)
(***************************************************************************)
\* the number of non-empty segments between slashes
C26_Segments(p) ==
  Cardinality({ i \in 1..Len(p) : Ch(p, i) # "/" /\ (i = 1 \/ Ch(p, i - 1) = "/") })

C26_DoubleSlashNormalized ==
  /\ pc = "returned"
  /\ OptionOr(opts, "strategy", "fuzzy") = "regex"
  /\ Len(text) <= MaxPathLength
  =>
    /\ \A m \in Range(ExtractFromMatches(MatchAll(PATH_REGEX, text), 1)) :
         LET unwrapped == StripWrapping(StripQuery(StripLocator(m)))
             before == UnescapeBackslashes(unwrapped)
             after == StripDoubleSlash(before)
         IN /\ after = IF /\ SubSeq(before, 1, 2) = "//"
                          /\ C25_EndsInExtension(before) \/ C26_Segments(before) > 2
                       THEN SubSeq(before, 2, Len(before))
                       ELSE before
            /\ SubSeq(unwrapped, 1, 2) = "\\\\" => before = unwrapped /\ after = unwrapped
    /\ text = "//server/file.txt" => regexPaths = << "/server/file.txt" >>
    /\ text = "//another/share" => regexPaths = << "//another/share" >>
    /\ text = "\\\\srv\\\\share\\f.txt" => regexPaths = << text >>

C26_Witness ==
  /\ pc = "returned"
  /\ text = "//server/file.txt //another/share"
  /\ regexPaths = << "/server/file.txt", "//another/share" >>

(***************************************************************************)
(* C29. Every string the pattern extractor returns has at most             *)
(* MaxPathLength characters and holds no line break, the strings cut out   *)
(* of a match that runs over lines and the strings put together out of two *)
(* halves included.                                                        *)
(***************************************************************************)
C29_ShortAndOnOneLine ==
  pc = "returned" =>
    \A k \in 1..Len(regexPaths) :
      /\ Len(regexPaths[k]) <= MaxPathLength
      /\ \A i \in 1..Len(regexPaths[k]) : Ch(regexPaths[k], i) # "\n"

(***************************************************************************)
(* C27. With the strategy regex a call reads no directory and, without     *)
(* absolute, returns a list that depends on the text and on unique alone,  *)
(* whatever the tree and the cwd are; with the strategy fuzzy the pattern  *)
(* extractor is not run.                                                   *)
(***************************************************************************)
C27_PatternNeedsNoFilesystem ==
  pc = "returned" =>
    /\ OptionOr(opts, "strategy", "fuzzy") = "regex" =>
         /\ dirsRead = {}
         /\ allFilePaths = << >>
         /\ fuzzyPaths = << >>
         /\ ~OptionOr(opts, "absolute", FALSE) =>
              resolvedPaths = UniquePaths(OptionOr(opts, "unique", TRUE),
                                          extractPathsWithRegex(text))
    /\ OptionOr(opts, "strategy", "fuzzy") = "fuzzy" =>
         /\ regexPaths = << >>
         /\ resolvedPaths = ResolvePaths(OptionOr(opts, "absolute", FALSE),
                                         OptionOr(opts, "cwd", ProcessCwd),
                                         UniquePaths(OptionOr(opts, "unique", TRUE), fuzzyPaths))

\* a tree that holds files, a cwd that is not the process's, and nothing read
C27_Witness ==
  /\ pc = "returned"
  /\ OptionOr(opts, "strategy", "fuzzy") = "regex"
  /\ ~OptionOr(opts, "absolute", FALSE)
  /\ OptionOr(opts, "cwd", ProcessCwd) = "p"
  /\ world.files # {}
  /\ resolvedPaths = << "src/a.ts" >>
  /\ dirsRead = {}

(***************************************************************************)
(* C28. No state goes from one call to the next: a second call of          *)
(* extractPaths with the text, the options and the tree of the first       *)
(* returns the list the first returned, and the scan position of the       *)
(* shared pattern PATH_REGEX is where it was before every call.            *)
(***************************************************************************)
C28_NoStateAcrossCalls ==
  /\ lastIndex = 0
  /\ (pc = "returned" /\ earlier # << >> /\ earlier[1].opts = opts) =>
       resolvedPaths = earlier[1].value

\* a second call, with the pattern branch, on a text of two paths
C28_Witness ==
  /\ pc = "returned"
  /\ earlier # << >>
  /\ earlier[1].opts = opts
  /\ OptionOr(opts, "strategy", "fuzzy") = "regex"
  /\ text = "src/a.ts a.ts"
  /\ resolvedPaths = << "src/a.ts", "a.ts" >>

(***************************************************************************)
(* C30. Verification commutes with absolutization: verifyPaths of the list *)
(* resolved against the cwd is the resolved form of verifyPaths of the     *)
(* list, so the pipeline keeps the same files with absolute and without.   *)
(***************************************************************************)
C30_VerifyCommutesWithAbsolute ==
  pc \in {"verified", "formatted"} =>
    LET cwd == OptionOr(opts, "cwd", ProcessCwd)
        kept == ResolvePaths(TRUE, cwd, verifyPathsIn(world, uniquePaths, cwd))
    IN /\ verifyPathsIn(world, ResolvePaths(TRUE, cwd, uniquePaths), cwd) = kept
       /\ (ShouldVerify(opts) /\ OptionOr(opts, "absolute", FALSE)) => verifiedPaths = kept

====
